---- MODULE Spec2Model ----
(***************************************************************************)
(* Quantum Atomic Swaps v2.0 - the swap coordinator (lib/swap), the ledger *)
(* adapters it awaits, and the two escrows on their ledgers.               *)
(*                                                                         *)
(* The coordinator's handlers are async functions on one event loop: the   *)
(* code between two awaits runs atomically, and any other handler may run  *)
(* at an await.  Every handler is therefore split at its awaits into one   *)
(* action per segment; a call that is suspended at an await is an element  *)
(* of the bag inflight.                                                    *)
(***************************************************************************)
EXTENDS Integers, Sequences, FiniteSets, Bags, TLC

VARIABLES
    swaps,      \* the coordinator's Map: swapId -> swap record
    inflight,   \* bag of handler calls suspended at an await
    response,   \* the HTTP response being sent for the call that just ended
    now,        \* Math.floor(Date.now() / 1000)
    escrow,     \* the ledgers: the output locked by each escrow script
    leaked,     \* secrets the responder has read from status responses
    env,        \* process.env when the coordinator module was loaded
    minted,     \* how many responder bundles generateResponderSecrets has made
    lib         \* the last call into lib/htlc or lib/crypto made on its own

vars == <<swaps, inflight, response, now, escrow, leaked, env, minted, lib>>

----------------------------------------------------------------------------
(* Bounds of the model *)

\* calls that may be suspended at an await at the same time
MaxCalls == 2

\* responder bundles that joins may generate
MaxJoins == 2

\* chunks of a Winternitz signature: 32 in the program, one per message byte
WOTS_CHUNKS == 2

\* length of a Winternitz hash chain: 256 in the program, for 8-bit chunks
WOTS_ITERATIONS == 3

----------------------------------------------------------------------------
(* Constants of the program *)

SwapStatus == [
    INITIATED           |-> "initiated",
    COUNTERPARTY_JOINED |-> "counterparty_joined",
    INITIATOR_FUNDED    |-> "initiator_funded",
    RESPONDER_FUNDED    |-> "responder_funded",
    FULLY_FUNDED        |-> "fully_funded",
    CLAIMING            |-> "claiming",
    COMPLETED           |-> "completed",
    REFUNDING           |-> "refunding",
    REFUNDED            |-> "refunded",
    EXPIRED             |-> "expired",
    FAILED              |-> "failed" ]

SupportedChains == {"BSV", "BTC", "SOL"}

initiatorTimeoutSeconds == 86400
responderTimeoutSeconds == 43200

\* the number that is not a number
NaN == -2147483647

\* a value of the environment or of a request body: absent, a JSON number, a
\* string of digits with an optional sign, or any other string
Unset == [kind |-> "unset", value |-> 0]
Text == [kind |-> "text", value |-> 0]
Number(n) == [kind |-> "number", value |-> n]
Digits(n) == [kind |-> "digits", value |-> n]

\* parseInt: the integer a value starts with, NaN when it starts with none
parseInt(x) ==
    IF x.kind \in {"number", "digits"} THEN x.value ELSE NaN

\* !x of a request value: undefined, "" and the number 0 are falsy
Falsy(x) == x.kind = "unset" \/ (x.kind = "number" /\ x.value = 0)

\* a || b on numbers: b when a is NaN or 0
OrElse(a, b) == IF a = NaN \/ a = 0 THEN b ELSE a

\* a < b on numbers: false when either side is NaN
Less(a, b) == a # NaN /\ b # NaN /\ a < b

\* process.env without the two timeout variables
NoEnv == [ INITIATOR_TIMEOUT_SECONDS |-> Unset,
           RESPONDER_TIMEOUT_SECONDS |-> Unset ]

\* the timeout configuration, read from the environment at load time
config ==
    [ initiatorTimeoutSeconds |->
          OrElse(parseInt(env.INITIATOR_TIMEOUT_SECONDS), initiatorTimeoutSeconds),
      responderTimeoutSeconds |->
          OrElse(parseInt(env.RESPONDER_TIMEOUT_SECONDS), responderTimeoutSeconds) ]

----------------------------------------------------------------------------
(* Inputs and environment *)

SwapIds == {"qswap_1"}

Roles == {"initiator", "responder"}

\* the instants the clock visits: creation and the two timeouts after it
TimePoints ==
    {0, config.responderTimeoutSeconds, config.initiatorTimeoutSeconds}

\* ledger pairs of the requests: two script ledgers, and an equal pair
ChainPairs == {<<"BSV", "BTC">>, <<"BSV", "BSV">>}

\* the amounts of the requests: fromAmount and toAmount
Amounts == {<<Number(3), Number(2)>>}

\* request bodies of POST /api/swap/initiate
InitiateInputs(pairs, amounts) ==
    { [fromChain |-> ch[1], toChain |-> ch[2],
       fromAmount |-> a[1], toAmount |-> a[2],
       addressesValid |-> v] : ch \in pairs, a \in amounts, v \in BOOLEAN }

\* a secret that is null
NoSecret == 0

\* a swapSecret in a request body that is nobody's preimage
GuessedSecrets == {9}

\* sha256Hex: a digest of its argument, injective on the values in use
sha256Hex(data) == 2 * data + 11

\* cryptoLib.generateInitiatorSecrets: three fresh, independent preimages
generateInitiatorSecrets ==
    [ swap_secret   |-> 1, swap_hash   |-> sha256Hex(1),
      refund_secret |-> 2, refund_hash |-> sha256Hex(2),
      claim_secret  |-> 3, claim_hash  |-> sha256Hex(3) ]

\* cryptoLib.generateResponderSecrets: two fresh, independent preimages; n is
\* the number of bundles made before this one
generateResponderSecrets(n) ==
    [ recipient_secret |-> 10 * n + 4, recipient_hash |-> sha256Hex(10 * n + 4),
      refund_secret    |-> 10 * n + 5, refund_hash    |-> sha256Hex(10 * n + 5) ]

NoResponderSecrets ==
    [ recipient_secret |-> NoSecret, recipient_hash |-> NoSecret,
      refund_secret    |-> NoSecret, refund_hash    |-> NoSecret ]

\* lockingScript: null
NoScript == [swapHash |-> 0, recipientHash |-> 0, refundHash |-> 0, timeout |-> 0]

\* the two-branch program: its content is the four values it commits to
createHTLCScript(swapHash, recipientHash, refundHash, timeout) ==
    [swapHash |-> swapHash, recipientHash |-> recipientHash,
     refundHash |-> refundHash, timeout |-> timeout]

----------------------------------------------------------------------------
(* Records *)

NoRecord == [status |-> "none"]

NoResponse == [kind |-> "none"]

\* no library call has been made on its own
NoCall == [fn |-> "none"]

\* an escrow script that holds nothing: utxo and satoshis are its first
\* output, more the satoshis of a further unspent output of the same script
NoEscrow == [utxo |-> "none", satoshis |-> 0, more |-> 0]

\* the swap object initiateSwap builds
NewSwap(p) ==
    [ status     |-> SwapStatus.INITIATED,
      fromChain  |-> p.fromChain,
      toChain    |-> p.toChain,
      fromAmount |-> parseInt(p.fromAmount),
      toAmount   |-> parseInt(p.toAmount),
      initiator  |-> generateInitiatorSecrets,
      initiatorHTLC |-> [ chain |-> p.fromChain, address |-> "null",
                          lockingScript |-> NoScript, htlcData |-> NoScript,
                          timeout |-> now + config.initiatorTimeoutSeconds,
                          funded |-> FALSE ],
      responderHTLC |-> [ chain |-> p.toChain, address |-> "null",
                          lockingScript |-> NoScript, htlcData |-> NoScript,
                          timeout |-> now + config.responderTimeoutSeconds,
                          funded |-> FALSE ],
      responder  |-> NoResponderSecrets,
      transactions |-> << >> ]

\* one invocation of a handler: its arguments, where it is suspended, how many
\* adapter calls it has issued, whether any other invocation changed the
\* record or was suspended during its lifetime, and, for a join, which bundle
\* its local responderSecrets holds
Call(op, id, secret) ==
    [ op |-> op, swapId |-> id, secret |-> secret, pc |-> "start", io |-> 0,
      overlap |-> inflight # EmptyBag, bundle |-> 0 ]

\* every suspended call has now been overlapped by another invocation
MarkOverlap(B) ==
    LET marked == { [c EXCEPT !.overlap = TRUE] : c \in BagToSet(B) }
    IN  [ m \in marked |-> CopiesIn([m EXCEPT !.overlap = TRUE], B)
                          + CopiesIn([m EXCEPT !.overlap = FALSE], B) ]

\* the handler returns or throws: res.json(...) / res.status(400).json(...)
Reply(c, kind, remaining) ==
    response' = [ call |-> c, kind |-> kind, remaining |-> remaining,
                  caller |-> "any", secrets |-> {} ]

\* the handler reaches an await on an adapter call
Suspend(c, pc) ==
    /\ BagCardinality(inflight) < MaxCalls
    /\ inflight' = MarkOverlap(inflight)
                     (+) SetToBag({[c EXCEPT !.pc = pc, !.io = c.io + 1]})
    /\ response' = NoResponse

\* a suspended call moves from one await to the next
Advance(c, pc) ==
    /\ inflight' = (inflight (-) SetToBag({c}))
                     (+) SetToBag({[c EXCEPT !.pc = pc, !.io = c.io + 1]})
    /\ response' = NoResponse

\* a suspended call ends
Finish(c, kind) ==
    /\ inflight' = inflight (-) SetToBag({c})
    /\ Reply(c, kind, 0)

Suspended(op, pc) == { c \in BagToSet(inflight) : c.op = op /\ c.pc = pc }

Idle == response = NoResponse

UsesUtxos(chain) == chain \in {"BSV", "BTC"}

Init ==
    /\ swaps = [id \in {} |-> NoRecord]
    /\ inflight = EmptyBag
    /\ response = NoResponse
    /\ now = 0
    /\ escrow = [r \in Roles |-> NoEscrow]
    /\ leaked = {}
    /\ env = NoEnv
    /\ minted = 0
    /\ lib = NoCall

\* the handler throws before its first await, having changed nothing
Reject(c, kind) ==
    /\ inflight' = inflight
    /\ Reply(c, kind, 0)

----------------------------------------------------------------------------
(* Swap initiation *)

\* an initiateSwap that stores the new swap under every swapId of the Map
initiateSwapMut(p) ==
    LET c == Call("initiateSwap", "new", NoSecret) IN
    /\ Idle
    /\ IF \/ Falsy(p.fromAmount) \/ Falsy(p.toAmount)
          \/ p.fromChain \notin SupportedChains
          \/ p.toChain \notin SupportedChains
          \/ p.fromChain = p.toChain
          \/ ~p.addressesValid
       THEN /\ Reject(c, "ValidationError")
            /\ UNCHANGED swaps
       ELSE \E id \in SwapIds \ DOMAIN swaps :
              /\ swaps' = [i \in DOMAIN swaps \cup {id} |->
                             [NewSwap(p) EXCEPT !.fromAmount = 4]]
              /\ inflight' = MarkOverlap(inflight)
              /\ Reply([c EXCEPT !.swapId = id], "ok", 0)
    /\ UNCHANGED <<now, escrow, leaked, env, minted, lib>>

\* POST /api/swap/initiate -> initiateSwap(params); it has no await
initiateSwap(p) ==
    LET c == Call("initiateSwap", "new", NoSecret) IN
    /\ Idle
    /\ IF \/ Falsy(p.fromAmount) \/ Falsy(p.toAmount)
          \/ p.fromChain \notin SupportedChains
          \/ p.toChain \notin SupportedChains
          \/ p.fromChain = p.toChain
          \/ ~p.addressesValid
       THEN /\ Reject(c, "ValidationError")
            /\ UNCHANGED swaps
       ELSE \E id \in SwapIds \ DOMAIN swaps :
              /\ swaps' = [i \in DOMAIN swaps \cup {id} |->
                             IF i = id THEN NewSwap(p) ELSE swaps[i]]
              /\ inflight' = MarkOverlap(inflight)
              /\ Reply([c EXCEPT !.swapId = id], "ok", 0)
    /\ UNCHANGED <<now, escrow, leaked, env, minted, lib>>

----------------------------------------------------------------------------
(* Swap joining *)

\* the escrow fields joinSwap fills in from createHTLC's result
HTLCFields(h, chain, script) ==
    IF chain = "BSV"
    THEN [h EXCEPT !.lockingScript = script, !.address = "null"]
    ELSE IF chain = "BTC"
    THEN [h EXCEPT !.lockingScript = script, !.address = "p2sh"]
    ELSE h

\* sol.createHTLCData: the account data, which holds the three hashes and the
\* timeout
createHTLCData(swapHash, recipientHash, refundHash, timeout) ==
    [swapHash |-> swapHash, recipientHash |-> recipientHash,
     refundHash |-> refundHash, timeout |-> timeout]

\* the escrow fields joinSwap fills in from sol.createHTLCInfo's result
SolHTLCFields(h, data) == [h EXCEPT !.address = "sol", !.htlcData = data]

initiatorScript(swap, responderSecrets) ==
    createHTLCScript(swap.initiator.swap_hash, responderSecrets.recipient_hash,
                     swap.initiator.refund_hash, swap.initiatorHTLC.timeout)

\* a responder escrow that pays out to the responder's own recipient hash
responderScriptMut(swap, responderSecrets) ==
    createHTLCScript(swap.initiator.swap_hash, responderSecrets.recipient_hash,
                     responderSecrets.refund_hash, swap.responderHTLC.timeout)

responderScript(swap, responderSecrets) ==
    createHTLCScript(swap.initiator.swap_hash, swap.initiator.claim_hash,
                     responderSecrets.refund_hash, swap.responderHTLC.timeout)

\* joinSwap from "Create responder's HTLC" to its return, for a toChain that
\* needs no await
joinTail(swap, responderSecrets) ==
    [swap EXCEPT !.responderHTLC =
                     HTLCFields(@, swap.toChain,
                                responderScript(swap, responderSecrets)),
                 !.status = SwapStatus.COUNTERPARTY_JOINED]

\* joinSwap's status check
CanJoin(swap) == swap.status = SwapStatus.INITIATED

\* POST /api/swap/join -> joinSwap(params), up to its first await or its end
joinSwap(id, addressesValid) ==
    LET c == [Call("joinSwap", id, NoSecret) EXCEPT !.bundle = minted] IN
    /\ Idle
    /\ IF id \notin DOMAIN swaps
       THEN Reject(c, "NotFound") /\ UNCHANGED <<swaps, minted, lib>>
       ELSE IF ~CanJoin(swaps[id])
       THEN Reject(c, "StateError") /\ UNCHANGED <<swaps, minted, lib>>
       ELSE IF ~addressesValid
       THEN Reject(c, "ValidationError") /\ UNCHANGED <<swaps, minted, lib>>
       ELSE LET responderSecrets == generateResponderSecrets(minted)
                s1 == [swaps[id] EXCEPT !.responder = responderSecrets]
                s2 == [s1 EXCEPT !.initiatorHTLC =
                           HTLCFields(@, s1.fromChain,
                                      initiatorScript(s1, responderSecrets))]
            IN  /\ minted < MaxJoins
                /\ minted' = minted + 1
                /\ IF s2.fromChain = "SOL"
                   THEN /\ swaps' = [swaps EXCEPT ![id] = s2]
                        /\ Suspend(c, "createHTLCInfo_initiator")
                   ELSE IF s2.toChain = "SOL"
                   THEN /\ swaps' = [swaps EXCEPT ![id] = s2]
                        /\ Suspend(c, "createHTLCInfo_responder")
                   ELSE /\ swaps' = [swaps EXCEPT ![id] =
                                        joinTail(s2, responderSecrets)]
                        /\ inflight' = MarkOverlap(inflight)
                        /\ Reply(c, "ok", 0)
    /\ UNCHANGED <<now, escrow, leaked, env, lib>>

\* joinSwap after "await sol.createHTLCInfo" for the initiator's escrow; the
\* hashes it passed are those of the call's own responderSecrets
joinSwap_createHTLCInfo_initiator(c) ==
    /\ Idle
    /\ c \in Suspended("joinSwap", "createHTLCInfo_initiator")
    /\ \/ Finish(c, "LedgerIOError") /\ UNCHANGED swaps
       \/ LET responderSecrets == generateResponderSecrets(c.bundle)
              swap == swaps[c.swapId]
              s3 == [swap EXCEPT !.initiatorHTLC =
                        SolHTLCFields(@,
                           createHTLCData(swap.initiator.swap_hash,
                                          responderSecrets.recipient_hash,
                                          swap.initiator.refund_hash,
                                          swap.initiatorHTLC.timeout))]
          IN  /\ swaps' = [swaps EXCEPT ![c.swapId] =
                              joinTail(s3, responderSecrets)]
              /\ Finish(c, "ok")
    /\ UNCHANGED <<now, escrow, leaked, env, minted, lib>>

\* joinSwap after "await sol.createHTLCInfo" for the responder's escrow
joinSwap_createHTLCInfo_responder(c) ==
    /\ Idle
    /\ c \in Suspended("joinSwap", "createHTLCInfo_responder")
    /\ \/ Finish(c, "LedgerIOError") /\ UNCHANGED swaps
       \/ LET responderSecrets == generateResponderSecrets(c.bundle)
              swap == swaps[c.swapId]
          IN  /\ swaps' = [swaps EXCEPT ![c.swapId] =
                   [swap EXCEPT
                      !.responderHTLC =
                         SolHTLCFields(@,
                            createHTLCData(swap.initiator.swap_hash,
                                           swap.initiator.claim_hash,
                                           responderSecrets.refund_hash,
                                           swap.responderHTLC.timeout)),
                      !.status = SwapStatus.COUNTERPARTY_JOINED]]
              /\ Finish(c, "ok")
    /\ UNCHANGED <<now, escrow, leaked, env, minted, lib>>

----------------------------------------------------------------------------
(* The ledgers *)

\* what getHTLCBalance / getBalance report for an escrow
Balance(role) ==
    (IF escrow[role].utxo = "unspent" THEN escrow[role].satoshis ELSE 0)
    + escrow[role].more

\* a balance query that reports an output whatever the escrow holds
UtxosMut(role) == <<escrow[role].satoshis>>

\* balance.utxos
Utxos(role) ==
    (IF escrow[role].utxo = "unspent" THEN <<escrow[role].satoshis>> ELSE << >>)
    \o (IF escrow[role].more > 0 THEN <<escrow[role].more>> ELSE << >>)

HTLCOf(swap, role) ==
    IF role = "initiator" THEN swap.initiatorHTLC ELSE swap.responderHTLC

AmountOf(swap, role) ==
    IF role = "initiator" THEN swap.fromAmount ELSE swap.toAmount

\* a party pays into the escrow that joinSwap published
FundEscrow(id, role) ==
    /\ Idle
    /\ id \in DOMAIN swaps
    /\ \/ HTLCOf(swaps[id], role).lockingScript # NoScript
       \/ HTLCOf(swaps[id], role).address # "null"
    /\ AmountOf(swaps[id], role) > 0
    /\ escrow[role].utxo = "none"
    /\ escrow' = [escrow EXCEPT ![role] =
                     [utxo |-> "unspent",
                      satoshis |-> AmountOf(swaps[id], role), more |-> 0]]
    /\ UNCHANGED <<swaps, inflight, response, now, leaked, env, minted, lib>>

\* a party pays the amount into the escrow in two outputs
FundEscrowInParts(id, role) ==
    /\ Idle
    /\ id \in DOMAIN swaps
    /\ \/ HTLCOf(swaps[id], role).lockingScript # NoScript
       \/ HTLCOf(swaps[id], role).address # "null"
    /\ AmountOf(swaps[id], role) > 1
    /\ escrow[role].utxo = "none"
    /\ escrow' = [escrow EXCEPT ![role] =
                     [utxo |-> "unspent", satoshis |-> 1,
                      more |-> AmountOf(swaps[id], role) - 1]]
    /\ UNCHANGED <<swaps, inflight, response, now, leaked, env, minted, lib>>

----------------------------------------------------------------------------
(* Funding recording *)

\* recordInitiatorFunding's status check
CanRecordInitiatorFunding(swap) ==
    ~ /\ swap.status # SwapStatus.COUNTERPARTY_JOINED
      /\ swap.status # SwapStatus.RESPONDER_FUNDED

\* recordResponderFunding's status check
CanRecordResponderFunding(swap) ==
    ~ /\ swap.status # SwapStatus.COUNTERPARTY_JOINED
      /\ swap.status # SwapStatus.INITIATOR_FUNDED

\* POST /api/swap/fund/initiator -> recordInitiatorFunding, up to its await
recordInitiatorFunding(id) ==
    LET c == Call("recordInitiatorFunding", id, NoSecret) IN
    /\ Idle
    /\ IF id \notin DOMAIN swaps
       THEN Reject(c, "NotFound")
       ELSE IF ~CanRecordInitiatorFunding(swaps[id])
       THEN Reject(c, "StateError")
       ELSE Suspend(c, "getBalance")
    /\ UNCHANGED <<swaps, now, escrow, leaked, env, minted, lib>>

\* recordInitiatorFunding after the balance query
recordInitiatorFunding_getBalance(c) ==
    /\ Idle
    /\ c \in Suspended("recordInitiatorFunding", "getBalance")
    /\ \/ Finish(c, "LedgerIOError") /\ UNCHANGED swaps
       \/ LET swap == swaps[c.swapId] IN
          IF Less(Balance("initiator"), swap.fromAmount)
          THEN Finish(c, "InsufficientFunding") /\ UNCHANGED swaps
          ELSE /\ swaps' = [swaps EXCEPT ![c.swapId] =
                   [swap EXCEPT
                      !.initiatorHTLC.funded = TRUE,
                      !.status = IF swap.responderHTLC.funded
                                 THEN SwapStatus.FULLY_FUNDED
                                 ELSE SwapStatus.INITIATOR_FUNDED,
                      !.transactions = Append(@, "initiator_funding")]]
               /\ Finish(c, "ok")
    /\ UNCHANGED <<now, escrow, leaked, env, minted, lib>>

\* POST /api/swap/fund/responder -> recordResponderFunding, up to its await
recordResponderFunding(id) ==
    LET c == Call("recordResponderFunding", id, NoSecret) IN
    /\ Idle
    /\ IF id \notin DOMAIN swaps
       THEN Reject(c, "NotFound")
       ELSE IF ~CanRecordResponderFunding(swaps[id])
       THEN Reject(c, "StateError")
       ELSE Suspend(c, "getBalance")
    /\ UNCHANGED <<swaps, now, escrow, leaked, env, minted, lib>>

\* recordResponderFunding after the balance query
recordResponderFunding_getBalance(c) ==
    /\ Idle
    /\ c \in Suspended("recordResponderFunding", "getBalance")
    /\ \/ Finish(c, "LedgerIOError") /\ UNCHANGED swaps
       \/ LET swap == swaps[c.swapId] IN
          IF Less(Balance("responder"), swap.toAmount)
          THEN Finish(c, "InsufficientFunding") /\ UNCHANGED swaps
          ELSE /\ swaps' = [swaps EXCEPT ![c.swapId] =
                   [swap EXCEPT
                      !.responderHTLC.funded = TRUE,
                      !.status = IF swap.initiatorHTLC.funded
                                 THEN SwapStatus.FULLY_FUNDED
                                 ELSE SwapStatus.RESPONDER_FUNDED,
                      !.transactions = Append(@, "responder_funding")]]
               /\ Finish(c, "ok")
    /\ UNCHANGED <<now, escrow, leaked, env, minted, lib>>

----------------------------------------------------------------------------
(* Spend construction *)

\* buildClaimTransaction: parse the script and verify both secrets against it
buildClaimTransaction(swapSecret, recipientSecret, lockingScript) ==
    /\ lockingScript # NoScript
    /\ sha256Hex(swapSecret) = lockingScript.swapHash
    /\ sha256Hex(recipientSecret) = lockingScript.recipientHash

\* buildRefundTransaction: parse the script, verify the refund secret and
\* check the script's timeout against a fresh clock reading
buildRefundTransaction(refundSecret, lockingScript) ==
    IF lockingScript = NoScript
       \/ sha256Hex(refundSecret) # lockingScript.refundHash
    THEN "BuildError"
    ELSE IF now < lockingScript.timeout
    THEN "TimeoutNotReached"
    ELSE "ok"

\* an escrow after a claim or a refund has spent utxos[0], the only input of
\* the transaction: its first output, or the further one when the first is
\* spent already
Spent(how, role) ==
    IF escrow[role].utxo = "unspent"
    THEN [escrow[role] EXCEPT !.utxo = how, !.satoshis = 0]
    ELSE [escrow[role] EXCEPT !.more = 0]

\* the ledger runs the claim branch: the output must still be unspent
ClaimSpendValid(role) == Utxos(role) # << >>

\* the ledger runs the refund branch: unspent, and CHECKLOCKTIMEVERIFY passes
RefundSpendValid(role, lockingScript) ==
    /\ Utxos(role) # << >>
    /\ now >= lockingScript.timeout

----------------------------------------------------------------------------
(* Claiming *)

\* a status check that also lets a claim through when one escrow is funded
CanInitiatorClaimMut(swap) ==
    swap.status \in {SwapStatus.FULLY_FUNDED, SwapStatus.RESPONDER_FUNDED}

\* initiatorClaim's status check
CanInitiatorClaim(swap) == swap.status = SwapStatus.FULLY_FUNDED

\* POST /api/swap/claim/initiator -> initiatorClaim, up to its first await
initiatorClaim(id) ==
    LET c == Call("initiatorClaim", id, NoSecret) IN
    /\ Idle
    /\ IF id \notin DOMAIN swaps
       THEN Reject(c, "NotFound") /\ UNCHANGED swaps
       ELSE IF ~CanInitiatorClaim(swaps[id])
       THEN Reject(c, "StateError") /\ UNCHANGED swaps
       ELSE /\ swaps' = [swaps EXCEPT ![id].status = SwapStatus.CLAIMING]
            /\ IF UsesUtxos(swaps[id].toChain)
               THEN Suspend(c, "getBalance")
               ELSE /\ inflight' = MarkOverlap(inflight)
                    /\ Reply(c, "NoFunds", 0)
    /\ UNCHANGED <<now, escrow, leaked, env, minted, lib>>

\* initiatorClaim after the balance query, up to the broadcast
initiatorClaim_getBalance(c) ==
    /\ Idle
    /\ c \in Suspended("initiatorClaim", "getBalance")
    /\ \/ Finish(c, "LedgerIOError")
       \/ LET swap == swaps[c.swapId] IN
          IF Utxos("responder") = << >>
          THEN Finish(c, "NoFunds")
          ELSE IF ~buildClaimTransaction(swap.initiator.swap_secret,
                                         swap.initiator.claim_secret,
                                         swap.responderHTLC.lockingScript)
          THEN Finish(c, "BuildError")
          ELSE Advance(c, "broadcastTransaction")
    /\ UNCHANGED <<swaps, now, escrow, leaked, env, minted, lib>>

\* revealedSecret in initiatorClaim's result
revealedSecret(swap) == {swap.initiator.swap_secret}

\* initiatorClaim after the broadcast
initiatorClaim_broadcastTransaction(c) ==
    /\ Idle
    /\ c \in Suspended("initiatorClaim", "broadcastTransaction")
    /\ \/ Finish(c, "LedgerIOError") /\ UNCHANGED <<swaps, escrow>>
       \/ /\ ClaimSpendValid("responder")
          /\ escrow' = [escrow EXCEPT !["responder"] = Spent("claimed", "responder")]
          /\ swaps' = [swaps EXCEPT ![c.swapId] =
                [@ EXCEPT !.status = SwapStatus.COMPLETED,
                          !.transactions = Append(@, "initiator_claim")]]
          /\ inflight' = inflight (-) SetToBag({c})
          /\ response' = [ call |-> c, kind |-> "ok", remaining |-> 0,
                           caller |-> "any",
                           secrets |-> revealedSecret(swaps[c.swapId]) ]
    /\ UNCHANGED <<now, leaked, env, minted, lib>>

\* a verification that accepts every swap secret
VerifySwapSecretMut(swapSecret, swap) ==
    swap.initiator.swap_hash = swap.initiator.swap_hash

\* "Verify swap_secret" in responderClaim
VerifySwapSecret(swapSecret, swap) ==
    sha256Hex(swapSecret) = swap.initiator.swap_hash

\* the secrets of a party's own bundle
OwnSecrets(swap, role) ==
    IF role = "initiator"
    THEN {swap.initiator.swap_secret, swap.initiator.refund_secret,
          swap.initiator.claim_secret}
    ELSE {swap.responder.recipient_secret, swap.responder.refund_secret}
         \ {NoSecret}

\* what the responder can put in a request: a guess, their own secrets, what a
\* status response showed them, and what the initiator's claim put on chain
Known(swap) ==
    GuessedSecrets \cup OwnSecrets(swap, "responder") \cup leaked
    \cup (IF escrow["responder"].utxo = "claimed"
          THEN {swap.initiator.swap_secret, swap.initiator.claim_secret}
          ELSE {})

\* POST /api/swap/claim/responder -> responderClaim, up to its first await
responderClaim(id, swapSecret) ==
    LET c == Call("responderClaim", id, swapSecret) IN
    /\ Idle
    /\ IF id \notin DOMAIN swaps
       THEN Reject(c, "NotFound")
       ELSE IF ~VerifySwapSecret(swapSecret, swaps[id])
       THEN Reject(c, "InvalidPreimage")
       ELSE IF UsesUtxos(swaps[id].fromChain)
       THEN Suspend(c, "getBalance")
       ELSE Reject(c, "NoFunds")
    /\ UNCHANGED <<swaps, now, escrow, leaked, env, minted, lib>>

\* responderClaim after the balance query, up to the broadcast
responderClaim_getBalance(c) ==
    /\ Idle
    /\ c \in Suspended("responderClaim", "getBalance")
    /\ \/ Finish(c, "LedgerIOError")
       \/ LET swap == swaps[c.swapId] IN
          IF Utxos("initiator") = << >>
          THEN Finish(c, "NoFunds")
          ELSE IF ~buildClaimTransaction(c.secret,
                                         swap.responder.recipient_secret,
                                         swap.initiatorHTLC.lockingScript)
          THEN Finish(c, "BuildError")
          ELSE Advance(c, "broadcastTransaction")
    /\ UNCHANGED <<swaps, now, escrow, leaked, env, minted, lib>>

\* responderClaim after the broadcast
responderClaim_broadcastTransaction(c) ==
    /\ Idle
    /\ c \in Suspended("responderClaim", "broadcastTransaction")
    /\ \/ Finish(c, "LedgerIOError") /\ UNCHANGED <<swaps, escrow>>
       \/ /\ ClaimSpendValid("initiator")
          /\ escrow' = [escrow EXCEPT !["initiator"] = Spent("claimed", "initiator")]
          /\ swaps' = [swaps EXCEPT ![c.swapId] =
                [@ EXCEPT !.status = SwapStatus.COMPLETED,
                          !.transactions = Append(@, "responder_claim")]]
          /\ Finish(c, "ok")
    /\ UNCHANGED <<now, leaked, env, minted, lib>>

----------------------------------------------------------------------------
(* Refunds *)

\* a timeout check that lets every refund go on
TimeoutReachedMut(t, timeout) == t >= 0

\* "Check timeout": the refund goes on unless now < timeout
TimeoutReached(t, timeout) == ~(t < timeout)

\* the seconds the timeout error reports
Remaining(t, timeout) == timeout - t

\* the initiator's refund secret, whichever escrow is refunded
RefundSecretOfMut(swap, role) == swap.initiator.refund_secret

\* the refund secret the coordinator takes from the record
RefundSecretOf(swap, role) ==
    IF role = "initiator" THEN swap.initiator.refund_secret
                          ELSE swap.responder.refund_secret

\* a refund handler up to its first await
RefundStart(op, role, id) ==
    LET c == Call(op, id, NoSecret) IN
    /\ Idle
    /\ IF id \notin DOMAIN swaps
       THEN Reject(c, "NotFound")
       ELSE LET h == HTLCOf(swaps[id], role) IN
            IF ~TimeoutReached(now, h.timeout)
            THEN /\ inflight' = inflight
                 /\ Reply(c, "TimeoutNotReached", Remaining(now, h.timeout))
            ELSE IF UsesUtxos(h.chain)
            THEN Suspend(c, "getBalance")
            ELSE Reject(c, "NoFunds")
    /\ UNCHANGED <<swaps, now, escrow, leaked, env, minted, lib>>

\* a refund handler after the balance query, up to the broadcast
RefundGetBalance(op, role, c) ==
    /\ Idle
    /\ c \in Suspended(op, "getBalance")
    /\ \/ Finish(c, "LedgerIOError")
       \/ LET swap == swaps[c.swapId]
              h == HTLCOf(swap, role)
              built == buildRefundTransaction(RefundSecretOf(swap, role),
                                              h.lockingScript)
          IN  IF Utxos(role) = << >>
              THEN Finish(c, "NoFunds")
              ELSE IF built = "TimeoutNotReached"
              THEN /\ inflight' = inflight (-) SetToBag({c})
                   /\ Reply(c, built, Remaining(now, h.lockingScript.timeout))
              ELSE IF built # "ok"
              THEN Finish(c, built)
              ELSE Advance(c, "broadcastTransaction")
    /\ UNCHANGED <<swaps, now, escrow, leaked, env, minted, lib>>

\* a refund handler after the broadcast
RefundBroadcast(op, role, c) ==
    /\ Idle
    /\ c \in Suspended(op, "broadcastTransaction")
    /\ \/ Finish(c, "LedgerIOError") /\ UNCHANGED <<swaps, escrow>>
       \/ /\ RefundSpendValid(role, HTLCOf(swaps[c.swapId], role).lockingScript)
          /\ escrow' = [escrow EXCEPT ![role] = Spent("refunded", role)]
          /\ swaps' = [swaps EXCEPT ![c.swapId] =
                [@ EXCEPT !.status = SwapStatus.REFUNDED,
                          !.transactions = Append(@, role \o "_refund")]]
          /\ Finish(c, "ok")
    /\ UNCHANGED <<now, leaked, env, minted, lib>>

\* POST /api/swap/refund/initiator -> initiatorRefund
initiatorRefund(id) == RefundStart("initiatorRefund", "initiator", id)

initiatorRefund_getBalance(c) ==
    RefundGetBalance("initiatorRefund", "initiator", c)

initiatorRefund_broadcastTransaction(c) ==
    RefundBroadcast("initiatorRefund", "initiator", c)

\* POST /api/swap/refund/responder -> responderRefund
responderRefund(id) == RefundStart("responderRefund", "responder", id)

responderRefund_getBalance(c) ==
    RefundGetBalance("responderRefund", "responder", c)

responderRefund_broadcastTransaction(c) ==
    RefundBroadcast("responderRefund", "responder", c)

----------------------------------------------------------------------------
(* Status *)

\* result.initiatorSecrets and result.responderSecrets of getSwapStatus
StatusSecrets(swap, includeSecrets) ==
    IF includeSecrets
    THEN {swap.initiator.swap_secret, swap.initiator.refund_secret,
          swap.initiator.claim_secret}
         \cup (IF swap.responder.recipient_secret # NoSecret
               THEN {swap.responder.recipient_secret,
                     swap.responder.refund_secret}
               ELSE {})
    ELSE {}

\* GET /api/swap/status/:swapId?secrets=... -> getSwapStatus; caller is the
\* party that sent the request, which the handler never learns
getSwapStatus(caller, id, includeSecrets) ==
    LET c == Call("getSwapStatus", id, NoSecret) IN
    /\ Idle
    /\ IF id \notin DOMAIN swaps
       THEN Reply(c, "NotFound", 0)
       ELSE response' = [ call |-> c, kind |-> "ok", remaining |-> 0,
                          caller |-> caller,
                          secrets |-> StatusSecrets(swaps[id], includeSecrets) ]
    /\ UNCHANGED <<swaps, inflight, now, escrow, leaked, env, minted, lib>>

\* the response is sent; a party keeps what a status response showed them
SendResponse ==
    /\ response # NoResponse
    /\ response' = NoResponse
    /\ leaked' = IF response.caller = "responder"
                 THEN leaked \cup (response.secrets
                                     \ OwnSecrets(swaps[response.call.swapId],
                                                  "responder"))
                 ELSE leaked
    /\ UNCHANGED <<swaps, inflight, now, escrow, env, minted, lib>>

----------------------------------------------------------------------------
(* Time *)

InFlight(op) == \E c \in BagToSet(inflight) : c.op = op

\* the checks a handler makes on the record before its first adapter call
PassesChecks(op, swapSecret, swap) ==
    CASE op = "joinSwap"               -> CanJoin(swap)
      [] op = "recordInitiatorFunding" -> CanRecordInitiatorFunding(swap)
      [] op = "recordResponderFunding" -> CanRecordResponderFunding(swap)
      [] op = "initiatorClaim"         -> CanInitiatorClaim(swap)
      [] op = "responderClaim"         -> VerifySwapSecret(swapSecret, swap)
      [] op = "initiatorRefund"        ->
              TimeoutReached(now, swap.initiatorHTLC.timeout)
      [] op = "responderRefund"        ->
              TimeoutReached(now, swap.responderHTLC.timeout)

\* a claim or refund of a party that the coordinator would carry out now:
\* the handler's checks pass and the escrow it spends holds an output
Acceptable(swap, op) ==
    CASE op = "initiatorClaim" ->
           /\ PassesChecks(op, NoSecret, swap)
           /\ UsesUtxos(swap.toChain) /\ Utxos("responder") # << >>
      [] op = "responderClaim" ->
           /\ \E k \in Known(swap) : PassesChecks(op, k, swap)
           /\ UsesUtxos(swap.fromChain) /\ Utxos("initiator") # << >>
      [] op = "initiatorRefund" ->
           /\ PassesChecks(op, NoSecret, swap)
           /\ UsesUtxos(swap.fromChain) /\ Utxos("initiator") # << >>
      [] op = "responderRefund" ->
           /\ PassesChecks(op, NoSecret, swap)
           /\ UsesUtxos(swap.toChain) /\ Utxos("responder") # << >>

\* some party is sitting on a claim or refund they could invoke
Stalled ==
    \E id \in DOMAIN swaps :
      \E op \in {"initiatorClaim", "responderClaim",
                 "initiatorRefund", "responderRefund"} :
         Acceptable(swaps[id], op) /\ ~InFlight(op)

\* the clock, which starts with the first swap, moves on to the next instant
Tick ==
    /\ Idle
    /\ DOMAIN swaps # {}
    /\ \E t \in TimePoints :
         /\ t > now
         /\ \A u \in TimePoints : u > now => t <= u
         /\ now' = t
    /\ UNCHANGED <<swaps, inflight, response, escrow, leaked, env, minted, lib>>

----------------------------------------------------------------------------
(* The system *)

\* the requests on an existing swap and the continuations of the suspended
\* calls
Steps ==
    \/ \E id \in SwapIds, v \in BOOLEAN : joinSwap(id, v)
    \/ \E id \in SwapIds, r \in Roles : FundEscrow(id, r)
    \/ \E id \in SwapIds : recordInitiatorFunding(id)
    \/ \E c \in BagToSet(inflight) : recordInitiatorFunding_getBalance(c)
    \/ \E id \in SwapIds : recordResponderFunding(id)
    \/ \E c \in BagToSet(inflight) : recordResponderFunding_getBalance(c)
    \/ \E id \in SwapIds : initiatorClaim(id)
    \/ \E c \in BagToSet(inflight) : initiatorClaim_getBalance(c)
    \/ \E c \in BagToSet(inflight) : initiatorClaim_broadcastTransaction(c)
    \/ \E id \in SwapIds :
         \E k \in (IF id \in DOMAIN swaps THEN Known(swaps[id])
                                          ELSE GuessedSecrets) :
            responderClaim(id, k)
    \/ \E c \in BagToSet(inflight) : responderClaim_getBalance(c)
    \/ \E c \in BagToSet(inflight) : responderClaim_broadcastTransaction(c)
    \/ \E id \in SwapIds : initiatorRefund(id)
    \/ \E c \in BagToSet(inflight) : initiatorRefund_getBalance(c)
    \/ \E c \in BagToSet(inflight) : initiatorRefund_broadcastTransaction(c)
    \/ \E id \in SwapIds : responderRefund(id)
    \/ \E c \in BagToSet(inflight) : responderRefund_getBalance(c)
    \/ \E c \in BagToSet(inflight) : responderRefund_broadcastTransaction(c)
    \/ \E caller \in Roles, id \in SwapIds, includeSecrets \in BOOLEAN :
         getSwapStatus(caller, id, includeSecrets)
    \/ SendResponse

\* the requests and the continuations of the suspended calls
Handlers ==
    \/ \E p \in InitiateInputs(ChainPairs, Amounts) : initiateSwap(p)
    \/ Steps

Next == Handlers \/ Tick

Spec == Init /\ [][Next]_vars

\* time passes only while every party has invoked what the coordinator would
\* accept from them
PromptTick == ~Stalled /\ Tick

NextPrompt == Handlers \/ PromptTick

\* the executions in which each party claims or refunds as soon as they can
SpecPrompt == Init /\ [][NextPrompt]_vars

----------------------------------------------------------------------------
(* Initiation under any environment and any request *)

\* values INITIATOR_TIMEOUT_SECONDS and RESPONDER_TIMEOUT_SECONDS may have
EnvValues == {Unset, Text, Digits(0), Digits(3600), Digits(172800)}

\* ledger names in the requests, one of them unsupported
RequestChains == SupportedChains \cup {"ETH"}

\* amounts in the requests: absent, not numeric, zero, negative, positive
RequestAmounts == {Unset, Text, Number(0), Digits(0), Number(-5), Number(3)}

\* the coordinator is loaded with any values of the two variables
InitAnyEnv ==
    /\ swaps = [id \in {} |-> NoRecord]
    /\ inflight = EmptyBag
    /\ response = NoResponse
    /\ now = 0
    /\ escrow = [r \in Roles |-> NoEscrow]
    /\ leaked = {}
    /\ env \in [ INITIATOR_TIMEOUT_SECONDS : EnvValues,
                 RESPONDER_TIMEOUT_SECONDS : EnvValues ]
    /\ minted = 0
    /\ lib = NoCall

NextInitiate ==
    \/ \E p \in InitiateInputs(RequestChains \X RequestChains,
                               (RequestAmounts \X {Number(2)})
                                 \cup ({Number(3)} \X RequestAmounts)) :
         initiateSwap(p)
    \/ \E caller \in Roles, id \in SwapIds, includeSecrets \in BOOLEAN :
         getSwapStatus(caller, id, includeSecrets)
    \/ SendResponse
    \/ Tick

SpecInitiate == InitAnyEnv /\ [][NextInitiate]_vars

----------------------------------------------------------------------------
(* Swaps with Solana on one side *)

\* ledger pairs of the requests: Solana as the responder's or the initiator's
\* ledger
SolChainPairs == {<<"BSV", "SOL">>, <<"SOL", "BTC">>}

NextSol ==
    \/ \E p \in InitiateInputs(SolChainPairs, Amounts) : initiateSwap(p)
    \/ Steps
    \/ \E c \in BagToSet(inflight) : joinSwap_createHTLCInfo_initiator(c)
    \/ \E c \in BagToSet(inflight) : joinSwap_createHTLCInfo_responder(c)
    \/ Tick

SpecSol == Init /\ [][NextSol]_vars

----------------------------------------------------------------------------
(* Swaps whose amounts are not numbers *)

\* the amounts of the requests: numbers, or a text in place of either
TextAmounts ==
    {<<Number(3), Number(2)>>, <<Text, Number(2)>>, <<Number(3), Text>>}

NextText ==
    \/ \E p \in InitiateInputs(ChainPairs, TextAmounts) : initiateSwap(p)
    \/ Steps
    \/ Tick

SpecText == Init /\ [][NextText]_vars

----------------------------------------------------------------------------
(* Two swaps in the coordinator's Map *)

\* the swapIds of the requests: the swap to come and one initiated before it
PairIds == SwapIds \cup {"qswap_0"}

\* the Map holds a swap that was initiated when the coordinator started
InitPair ==
    /\ inflight = EmptyBag
    /\ response = NoResponse
    /\ now = 0
    /\ escrow = [r \in Roles |-> NoEscrow]
    /\ leaked = {}
    /\ env = NoEnv
    /\ minted = 0
    /\ lib = NoCall
    /\ swaps = [id \in {"qswap_0"} |->
                  NewSwap([fromChain |-> "BSV", toChain |-> "BTC",
                           fromAmount |-> Number(3), toAmount |-> Number(2),
                           addressesValid |-> TRUE])]

\* the requests on either swap, each made while no other call on that swap is
\* suspended, and the continuations of the suspended calls
NextPair ==
    \/ \E p \in InitiateInputs({<<"BSV", "BTC">>}, Amounts) : initiateSwap(p)
    \/ \E id \in PairIds :
         (\A d \in BagToSet(inflight) : d.swapId # id) /\ joinSwap(id, TRUE)
    \/ \E id \in PairIds :
         (\A d \in BagToSet(inflight) : d.swapId # id) /\ recordInitiatorFunding(id)
    \/ \E id \in PairIds :
         (\A d \in BagToSet(inflight) : d.swapId # id) /\ recordResponderFunding(id)
    \/ \E id \in PairIds :
         (\A d \in BagToSet(inflight) : d.swapId # id) /\ initiatorClaim(id)
    \/ \E id \in PairIds :
         /\ (\A d \in BagToSet(inflight) : d.swapId # id)
         /\ \E k \in (IF id \in DOMAIN swaps THEN Known(swaps[id])
                                             ELSE GuessedSecrets) :
              responderClaim(id, k)
    \/ \E id \in PairIds :
         (\A d \in BagToSet(inflight) : d.swapId # id) /\ initiatorRefund(id)
    \/ \E id \in PairIds :
         (\A d \in BagToSet(inflight) : d.swapId # id) /\ responderRefund(id)
    \/ \E id \in PairIds, r \in Roles : FundEscrow(id, r)
    \/ \E c \in BagToSet(inflight) : recordInitiatorFunding_getBalance(c)
    \/ \E c \in BagToSet(inflight) : recordResponderFunding_getBalance(c)
    \/ \E c \in BagToSet(inflight) : initiatorClaim_getBalance(c)
    \/ \E c \in BagToSet(inflight) : initiatorClaim_broadcastTransaction(c)
    \/ \E c \in BagToSet(inflight) : responderClaim_getBalance(c)
    \/ \E c \in BagToSet(inflight) : responderClaim_broadcastTransaction(c)
    \/ \E c \in BagToSet(inflight) : initiatorRefund_getBalance(c)
    \/ \E c \in BagToSet(inflight) : initiatorRefund_broadcastTransaction(c)
    \/ \E c \in BagToSet(inflight) : responderRefund_getBalance(c)
    \/ \E c \in BagToSet(inflight) : responderRefund_broadcastTransaction(c)
    \/ SendResponse
    \/ Tick

SpecPair == InitPair /\ [][NextPair]_vars

----------------------------------------------------------------------------
(* An initiator who keeps claiming, on ledgers that answer in the end *)

\* the requests up to the initiator's claim; no time passes and nobody else
\* spends an escrow
NextRetry ==
    \/ \E p \in InitiateInputs({<<"BSV", "BTC">>}, Amounts) : initiateSwap(p)
    \/ \E id \in SwapIds : joinSwap(id, TRUE)
    \/ \E id \in SwapIds, r \in Roles : FundEscrow(id, r)
    \/ \E id \in SwapIds : recordInitiatorFunding(id)
    \/ \E c \in BagToSet(inflight) : recordInitiatorFunding_getBalance(c)
    \/ \E id \in SwapIds : recordResponderFunding(id)
    \/ \E c \in BagToSet(inflight) : recordResponderFunding_getBalance(c)
    \/ \E id \in SwapIds : initiatorClaim(id)
    \/ \E c \in BagToSet(inflight) : initiatorClaim_getBalance(c)
    \/ \E c \in BagToSet(inflight) : initiatorClaim_broadcastTransaction(c)
    \/ SendResponse

\* every response is sent and every suspended call is resumed; the initiator
\* issues the claim again and again; an adapter call that is made again and
\* again succeeds in the end: the balance query lets the claim go on to the
\* broadcast, and the broadcast is accepted
SpecRetry ==
    /\ Init
    /\ [][NextRetry]_vars
    /\ WF_vars(SendResponse)
    /\ \A id \in SwapIds : SF_vars(initiatorClaim(id))
    /\ SF_vars(\E c \in BagToSet(inflight) :
                 recordInitiatorFunding_getBalance(c))
    /\ SF_vars(\E c \in BagToSet(inflight) :
                 recordResponderFunding_getBalance(c))
    /\ SF_vars(\E c \in BagToSet(inflight) :
                 initiatorClaim_getBalance(c) /\ response' = NoResponse)
    /\ SF_vars(\E c \in BagToSet(inflight) :
                 initiatorClaim_broadcastTransaction(c) /\ swaps' # swaps)

----------------------------------------------------------------------------
(* An escrow paid in two outputs *)

\* the coordinator with one BSV/BTC swap whose parties pay each escrow in two
\* outputs of the same script
NextParts ==
    \/ \E p \in InitiateInputs({<<"BSV", "BTC">>}, Amounts) : initiateSwap(p)
    \/ \E id \in SwapIds : joinSwap(id, TRUE)
    \/ \E id \in SwapIds, r \in Roles : FundEscrowInParts(id, r)
    \/ \E id \in SwapIds : recordInitiatorFunding(id)
    \/ \E c \in BagToSet(inflight) : recordInitiatorFunding_getBalance(c)
    \/ \E id \in SwapIds : recordResponderFunding(id)
    \/ \E c \in BagToSet(inflight) : recordResponderFunding_getBalance(c)
    \/ \E id \in SwapIds : initiatorClaim(id)
    \/ \E c \in BagToSet(inflight) : initiatorClaim_getBalance(c)
    \/ \E c \in BagToSet(inflight) : initiatorClaim_broadcastTransaction(c)
    \/ \E id \in SwapIds :
         \E k \in (IF id \in DOMAIN swaps THEN Known(swaps[id])
                                          ELSE GuessedSecrets) :
            responderClaim(id, k)
    \/ \E c \in BagToSet(inflight) : responderClaim_getBalance(c)
    \/ \E c \in BagToSet(inflight) : responderClaim_broadcastTransaction(c)
    \/ \E id \in SwapIds : initiatorRefund(id)
    \/ \E c \in BagToSet(inflight) : initiatorRefund_getBalance(c)
    \/ \E c \in BagToSet(inflight) : initiatorRefund_broadcastTransaction(c)
    \/ \E id \in SwapIds : responderRefund(id)
    \/ \E c \in BagToSet(inflight) : responderRefund_getBalance(c)
    \/ \E c \in BagToSet(inflight) : responderRefund_broadcastTransaction(c)
    \/ SendResponse
    \/ Tick

SpecParts == Init /\ [][NextParts]_vars

----------------------------------------------------------------------------
(* lib/htlc and lib/crypto: scripts as bytes *)
(* A hex string is the sequence of its bytes, two hex characters each.     *)

\* what stands for the hex string of a call that threw
Throws == <<-1>>

\* what stands for the object of a call that threw
Thrown == [thrown |-> TRUE]

\* the table OP: the opcodes in use, as byte values
OP ==
    ("FALSE" :> 0)
    @@ ("TRUE" :> 81)
    @@ ("PUSHDATA1" :> 76)
    @@ ("PUSHDATA2" :> 77)
    @@ ("IF" :> 99)
    @@ ("ELSE" :> 103)
    @@ ("ENDIF" :> 104)
    @@ ("DROP" :> 117)
    @@ ("EQUAL" :> 135)
    @@ ("EQUALVERIFY" :> 136)
    @@ ("SHA256" :> 168)
    @@ ("CHECKLOCKTIMEVERIFY" :> 177)
    @@ ("NOP" :> 97)

\* n bytes of value b
Bytes(b, n) == [i \in 1..n |-> b]

\* a number with a fractional part: n + 1/2
Fraction(n) == [kind |-> "fraction", value |-> n]

\* sha256 of a buffer: 32 bytes; injective on the buffers in use
sha256(data) ==
    Bytes(IF data = << >> THEN 0
          ELSE (7 * data[1] + 3 * Len(data) + 1) % 256, 32)

\* crypto.pushData: the push operation for the data, or Throws
pushData(hexData) ==
    LET length == Len(hexData) IN
    IF length = 0 THEN <<0>>
    ELSE IF length <= 75 THEN <<length>> \o hexData
    ELSE IF length <= 255 THEN <<OP["PUSHDATA1"], length>> \o hexData
    ELSE IF length <= 65535
    THEN <<OP["PUSHDATA2"], length % 256, length \div 256>> \o hexData
    ELSE Throws

\* the bytes the loop of encodeMinimalNumber writes for the integer n
RECURSIVE LittleEndian(_)
LittleEndian(n) ==
    IF n <= 0 THEN << >> ELSE <<n % 256>> \o LittleEndian(n \div 256)

\* an encoding that leaves out the lowest byte
encodeMinimalNumberMut(num) == LittleEndian(num.value \div 256)

\* encodeMinimalNumber: the loop runs while n > 0, stores n & 0xff and goes
\* on with Math.floor(n / 256); a 0x00 follows a last byte with the high bit
encodeMinimalNumber(num) ==
    LET body == IF num.kind \in {"number", "digits"}
                THEN LittleEndian(num.value)
                ELSE IF num.kind = "fraction" /\ num.value >= 0
                THEN <<num.value % 256>> \o LittleEndian(num.value \div 256)
                ELSE << >>
    IN  IF body # << >> /\ body[Len(body)] >= 128
        THEN body \o <<0>>
        ELSE body

\* decodeMinimalNumber: the bytes as a little-endian number
RECURSIVE decodeMinimalNumber(_)
decodeMinimalNumber(hex) ==
    IF hex = << >> THEN 0
    ELSE hex[1] + 256 * decodeMinimalNumber(Tail(hex))

\* !hash || hash.length !== 64
InvalidHash(hash) == Len(hash) # 32

\* !timeout || timeout < 1
InvalidTimeout(timeout) ==
    \/ Falsy(timeout)
    \/ /\ timeout.kind \in {"number", "digits", "fraction"}
       /\ timeout.value < 1

\* "Validate inputs" of createHTLCScript
InvalidParams(params) ==
    \/ InvalidHash(params.swapHash)
    \/ InvalidHash(params.recipientHash)
    \/ InvalidHash(params.refundHash)
    \/ InvalidTimeout(params.timeout)

\* a script whose refund branch drops the timeout without checking it
redeemScriptMut(params) ==
    IF InvalidParams(params)
    THEN Throws
    ELSE <<OP["IF"], OP["SHA256"]>> \o pushData(params.swapHash)
         \o <<OP["EQUALVERIFY"], OP["SHA256"]>>
         \o pushData(params.recipientHash)
         \o <<OP["EQUAL"], OP["ELSE"]>>
         \o pushData(encodeMinimalNumber(params.timeout))
         \o <<OP["DROP"], OP["SHA256"]>>
         \o pushData(params.refundHash)
         \o <<OP["EQUAL"], OP["ENDIF"]>>

\* createHTLCScript(...).redeemScript: the two-branch script, or Throws
redeemScript(params) ==
    IF InvalidParams(params)
    THEN Throws
    ELSE <<OP["IF"], OP["SHA256"]>> \o pushData(params.swapHash)
         \o <<OP["EQUALVERIFY"], OP["SHA256"]>>
         \o pushData(params.recipientHash)
         \o <<OP["EQUAL"], OP["ELSE"]>>
         \o pushData(encodeMinimalNumber(params.timeout))
         \o <<OP["CHECKLOCKTIMEVERIFY"], OP["DROP"], OP["SHA256"]>>
         \o pushData(params.refundHash)
         \o <<OP["EQUAL"], OP["ENDIF"]>>

\* a createHTLC that labels the escrow with the chain it was asked for
createHTLCMut(params, chain) ==
    LET script == redeemScript(params) IN
    IF script = Throws THEN Thrown
    ELSE [ redeemScript |-> script, chain |-> chain,
           outputType |-> IF chain = "BSV" THEN "bare-script" ELSE "p2sh" ]

\* createHTLC: a bare script for BSV, a P2SH output for every other chain
createHTLC(params, chain) ==
    LET script == redeemScript(params) IN
    IF script = Throws THEN Thrown
    ELSE IF chain = "BSV"
    THEN [ redeemScript |-> script, chain |-> "BSV",
           outputType |-> "bare-script" ]
    ELSE [ redeemScript |-> script, chain |-> "BTC",
           outputType |-> "p2sh" ]

\* !preimage || preimage.length < 64
InvalidPreimage(preimage) == Len(preimage) < 32

\* createClaimScriptSig
createClaimScriptSig(swapPreimage, recipientPreimage, script, chain) ==
    IF InvalidPreimage(swapPreimage) \/ InvalidPreimage(recipientPreimage)
    THEN Throws
    ELSE pushData(swapPreimage) \o pushData(recipientPreimage)
         \o <<OP["TRUE"]>>
         \o (IF chain = "BTC" THEN pushData(script) ELSE << >>)

\* createRefundScriptSig
createRefundScriptSig(refundPreimage, script, chain) ==
    IF InvalidPreimage(refundPreimage)
    THEN Throws
    ELSE pushData(refundPreimage) \o <<OP["FALSE"]>>
         \o (IF chain = "BTC" THEN pushData(script) ELSE << >>)

\* scriptHex.substring(i, i + 2): a byte of the script, none past its end
ByteAt(scriptHex, i) ==
    IF i \in 1..Len(scriptHex) THEN scriptHex[i] ELSE -1

\* scriptHex.substring(i, i + 2 * n)
Substring(scriptHex, i, n) ==
    SubSeq(scriptHex, i, IF i + n - 1 <= Len(scriptHex)
                         THEN i + n - 1 ELSE Len(scriptHex))

\* parseHTLCScript: the fields of the script, or Throws
parseHTLCScript(scriptHex) ==
    LET timeoutPushLen == ByteAt(scriptHex, 73)
        timeoutHex == Substring(scriptHex, 74, timeoutPushLen)
        j == 74 + timeoutPushLen
    IN  IF /\ ByteAt(scriptHex, 1) = OP["IF"]
           /\ ByteAt(scriptHex, 2) = OP["SHA256"]
           /\ ByteAt(scriptHex, 3) = 32
           /\ ByteAt(scriptHex, 36) = OP["EQUALVERIFY"]
           /\ ByteAt(scriptHex, 37) = OP["SHA256"]
           /\ ByteAt(scriptHex, 38) = 32
           /\ ByteAt(scriptHex, 71) = OP["EQUAL"]
           /\ ByteAt(scriptHex, 72) = OP["ELSE"]
           /\ timeoutPushLen >= 0
           /\ ByteAt(scriptHex, j) = OP["CHECKLOCKTIMEVERIFY"]
           /\ ByteAt(scriptHex, j + 1) = OP["DROP"]
           /\ ByteAt(scriptHex, j + 2) = OP["SHA256"]
           /\ ByteAt(scriptHex, j + 3) = 32
           /\ ByteAt(scriptHex, j + 36) = OP["EQUAL"]
           /\ ByteAt(scriptHex, j + 37) = OP["ENDIF"]
        THEN [ valid |-> TRUE,
               swapHash |-> Substring(scriptHex, 4, 32),
               recipientHash |-> Substring(scriptHex, 39, 32),
               refundHash |-> Substring(scriptHex, j + 4, 32),
               timeout |-> decodeMinimalNumber(timeoutHex),
               timeoutHex |-> timeoutHex ]
        ELSE Thrown

\* estimateScriptSigSize
estimateScriptSigSize(htlc, isQuantum) ==
    LET preimageSize == IF isQuantum THEN 1024 + 1024 + 3 ELSE 32 + 32 + 3
        redeemSize == Len(htlc.redeemScript) + 3
    IN  preimageSize + (IF htlc.chain = "BTC" THEN redeemSize ELSE 0)

----------------------------------------------------------------------------
(* The script ledgers: how a spend of an escrow output is validated *)

\* a stack item read as a condition: false when empty or all zero
Truthy(item) == \E i \in 1..Len(item) : item[i] # 0

\* the machine before the first opcode; branch is "none" outside the
\* conditional, "run" in its executed branch, "skip" in the other one
Machine == [stack |-> << >>, branch |-> "none", failed |-> FALSE]

\* the length of the opcode at position i with its data
OpSize(code, i) ==
    LET op == code[i] IN
    IF op \in 1..75 THEN 1 + op
    ELSE IF op = OP["PUSHDATA1"] THEN 2 + ByteAt(code, i + 1)
    ELSE IF op = OP["PUSHDATA2"]
    THEN 3 + ByteAt(code, i + 1) + 256 * ByteAt(code, i + 2)
    ELSE 1

\* the data an opcode pushes
Pushed(code, i) ==
    LET op == code[i]
        size == OpSize(code, i)
    IN  IF op \in 1..75 THEN SubSeq(code, i + 1, i + size - 1)
        ELSE IF op = OP["PUSHDATA1"] THEN SubSeq(code, i + 2, i + size - 1)
        ELSE IF op = OP["PUSHDATA2"] THEN SubSeq(code, i + 3, i + size - 1)
        ELSE IF op = OP["TRUE"] THEN <<1>>
        ELSE << >>

IsPush(op) == op \in 0..77 \/ op = OP["TRUE"]

\* one opcode of an executed branch; locktime is the spending transaction's
Step(m, code, i, locktime) ==
    LET op == code[i]
        depth == Len(m.stack)
        Fail(x) == [x EXCEPT !.failed = TRUE]
        Push(x, item) == [x EXCEPT !.stack = <<item>> \o @]
        Pop(x) == [x EXCEPT !.stack = Tail(@)]
    IN  IF IsPush(op) THEN Push(m, Pushed(code, i))
        ELSE IF op = OP["IF"]
        THEN IF depth < 1 \/ m.branch # "none" THEN Fail(m)
             ELSE [Pop(m) EXCEPT !.branch =
                      IF Truthy(m.stack[1]) THEN "run" ELSE "skip"]
        ELSE IF op = OP["ELSE"]
        THEN IF m.branch = "none" THEN Fail(m)
             ELSE [m EXCEPT !.branch = "skip"]
        ELSE IF op = OP["ENDIF"]
        THEN IF m.branch = "none" THEN Fail(m)
             ELSE [m EXCEPT !.branch = "none"]
        ELSE IF op = OP["DROP"]
        THEN IF depth < 1 THEN Fail(m) ELSE Pop(m)
        ELSE IF op = OP["SHA256"]
        THEN IF depth < 1 THEN Fail(m)
             ELSE Push(Pop(m), sha256(m.stack[1]))
        ELSE IF op \in {OP["EQUAL"], OP["EQUALVERIFY"]}
        THEN IF depth < 2 THEN Fail(m)
             ELSE LET equal == m.stack[1] = m.stack[2]
                      rest == Pop(Pop(m))
                  IN  IF op = OP["EQUAL"]
                      THEN Push(rest, IF equal THEN <<1>> ELSE << >>)
                      ELSE IF equal THEN rest ELSE Fail(rest)
        ELSE IF op = OP["CHECKLOCKTIMEVERIFY"]
        THEN IF depth < 1 \/ Len(m.stack[1]) > 5 THEN Fail(m)
             ELSE IF locktime < decodeMinimalNumber(m.stack[1])
             THEN Fail(m)
             ELSE m
        ELSE Fail(m)

\* the machine after the code from position i on
RECURSIVE Run(_, _, _, _)
Run(m, code, i, locktime) ==
    IF m.failed \/ i > Len(code) THEN m
    ELSE IF i + OpSize(code, i) - 1 > Len(code)
    THEN [m EXCEPT !.failed = TRUE]
    ELSE LET op == code[i]
             next == i + OpSize(code, i)
         IN  IF m.branch = "skip"
             THEN IF op = OP["ELSE"]
                  THEN Run([m EXCEPT !.branch = "run"], code, next, locktime)
                  ELSE IF op = OP["ENDIF"]
                  THEN Run([m EXCEPT !.branch = "none"], code, next, locktime)
                  ELSE Run(m, code, next, locktime)
             ELSE Run(Step(m, code, i, locktime), code, next, locktime)

\* the ledger's verdict on a transaction that spends the output of htlc with
\* the unlocking data scriptSig and the given locktime, at ledger time t: a
\* transaction is final from its locktime on; the unlocking data may only
\* push; a bare script runs on the stack the unlocking data left, a P2SH
\* output runs the script that the unlocking data pushed last, which must be
\* the one the output commits to; the spend is valid when the script ran to
\* its end and left a true item on top
SpendValid(htlc, scriptSig, locktime, t) ==
    LET RECURSIVE Only(_)
        Only(i) == \/ i > Len(scriptSig)
                   \/ /\ IsPush(scriptSig[i])
                      /\ i + OpSize(scriptSig, i) - 1 <= Len(scriptSig)
                      /\ Only(i + OpSize(scriptSig, i))
        Succeeded(m) == /\ ~m.failed
                        /\ m.branch = "none"
                        /\ m.stack # << >>
                        /\ Truthy(m.stack[1])
        unlocked == Run(Machine, scriptSig, 1, locktime)
    IN  /\ locktime <= t
        /\ Only(1)
        /\ ~unlocked.failed
        /\ IF htlc.outputType = "bare-script"
           THEN Succeeded(Run(unlocked, htlc.redeemScript, 1, locktime))
           ELSE /\ unlocked.stack # << >>
                /\ unlocked.stack[1] = htlc.redeemScript
                /\ Succeeded(Run([unlocked EXCEPT !.stack = Tail(@)],
                                 htlc.redeemScript, 1, locktime))

----------------------------------------------------------------------------
(* Calls into lib/htlc made on their own *)

\* 32-byte preimages ("simple" secrets) and a 1024-byte Winternitz preimage
SimplePreimages == {Bytes(1, 32), Bytes(2, 32), Bytes(3, 32)}

QuantumPreimage == Bytes(4, 1024)

Preimages == SimplePreimages \cup {QuantumPreimage}

\* the three hash arguments of createHTLCScript
HashArgs ==
    LET h1 == sha256(Bytes(1, 32))
        h2 == sha256(Bytes(2, 32))
        h3 == sha256(Bytes(3, 32))
        hq == sha256(QuantumPreimage)
        BadHashes == {<< >>, Bytes(9, 31), Bytes(9, 33)}
    IN  {<<h1, h2, h3>>, <<h2, h1, h3>>, <<hq, hq, h3>>}
        \cup {<<b, h2, h3>> : b \in BadHashes}
        \cup {<<h1, b, h3>> : b \in BadHashes}
        \cup {<<h1, h2, b>> : b \in BadHashes}

\* the timeout argument of createHTLCScript
TimeoutArgs ==
    {Unset, Text, Number(0), Number(-1), Fraction(0), Fraction(1),
     Number(1), Number(127), Number(128), Number(43200), Number(86400),
     Number(1700000000)}

\* the timeout a built script carries
CommittedTimeout(params) ==
    IF params.timeout.kind = "number" THEN params.timeout.value
    ELSE decodeMinimalNumber(encodeMinimalNumber(params.timeout))

\* scripts that differ from a built one in one way
Deviations ==
    {"none", "opcode", "hashPush", "timeoutPush", "missing", "extra"}

\* the scripts that deviate from script in the way d; n is the length of the
\* timeout push, OpcodeAt the positions of the opcodes
Deviate(script, d) ==
    LET n == script[73]
        OpcodeAt ==
            {1, 2, 36, 37, 71, 72, 74 + n, 75 + n, 76 + n, 110 + n, 111 + n}
        WithByte(i, b) == [script EXCEPT ![i] = b]
    IN
    CASE d = "none" -> {script}
      [] d = "opcode" -> {WithByte(i, OP["NOP"]) : i \in OpcodeAt}
      [] d = "hashPush" ->
            {WithByte(i, 33) : i \in {3, 38, 77 + n}}
            \cup {SubSeq(script, 1, 2) \o <<33, 0>>
                    \o SubSeq(script, 4, Len(script))}
      [] d = "timeoutPush" ->
            {SubSeq(script, 1, 72) \o <<n + 1>> \o SubSeq(script, 74, 73 + n)
               \o <<0>> \o SubSeq(script, 74 + n, Len(script))}
      [] d = "missing" ->
            {SubSeq(script, 1, k) : k \in {0, 40, Len(script) - 1}}
      [] d = "extra" ->
            {script \o <<OP["DROP"]>>, script \o <<OP["TRUE"]>>}

RECURSIVE Pushes(_)
Pushes(items) ==
    IF items = << >> THEN << >>
    ELSE pushData(Head(items)) \o Pushes(Tail(items))

\* locktimes and ledger times around the timeout of a script
TimesAround(timeout) ==
    {t \in {0, timeout - 1, timeout} : t >= 0}

\* a library call touches nothing of the coordinator
LibOnly ==
    UNCHANGED <<swaps, inflight, response, now, escrow, leaked, env, minted>>

\* createHTLC(params, chain): the first call, which the later ones build on
LibCreateHTLC(hashes, timeout, chain) ==
    LET params == [swapHash |-> hashes[1], recipientHash |-> hashes[2],
                   refundHash |-> hashes[3], timeout |-> timeout]
    IN  /\ lib = NoCall
        /\ lib' = [ fn |-> "createHTLC", params |-> params, chain |-> chain,
                    htlc |-> createHTLC(params, chain),
                    args |-> << >>, result |-> << >> ]
        /\ LibOnly

\* a script has been built and no call has been made on it yet
Fresh == lib.fn = "createHTLC" /\ lib.htlc # Thrown

\* parseHTLCScript(scriptHex)
LibParseHTLCScript(d) ==
    /\ Fresh
    /\ \E scriptHex \in Deviate(lib.htlc.redeemScript, d) :
         lib' = [lib EXCEPT !.fn = "parseHTLCScript",
                            !.args = [scriptHex |-> scriptHex,
                                      deviation |-> d],
                            !.result = parseHTLCScript(scriptHex)]
    /\ LibOnly

\* createClaimScriptSig(swapPreimage, recipientPreimage, redeemScript, chain)
LibCreateClaimScriptSig(swapPreimage, recipientPreimage) ==
    /\ Fresh
    /\ lib' = [lib EXCEPT !.fn = "createClaimScriptSig",
                          !.args = <<swapPreimage, recipientPreimage>>,
                          !.result = createClaimScriptSig(
                                         swapPreimage, recipientPreimage,
                                         lib.htlc.redeemScript, lib.htlc.chain)]
    /\ LibOnly

\* createRefundScriptSig(refundPreimage, redeemScript, chain)
LibCreateRefundScriptSig(refundPreimage) ==
    /\ Fresh
    /\ lib' = [lib EXCEPT !.fn = "createRefundScriptSig",
                          !.args = <<refundPreimage>>,
                          !.result = createRefundScriptSig(
                                         refundPreimage,
                                         lib.htlc.redeemScript, lib.htlc.chain)]
    /\ LibOnly

\* the transaction buildClaimTransaction (locktime 0) or
\* buildRefundTransaction (locktime: the script's timeout) makes of the
\* unlocking data just built reaches the ledger at time t
LibSpend(late) ==
    /\ lib.fn \in {"createClaimScriptSig", "createRefundScriptSig"}
    /\ lib.result # Throws
    /\ LET locktime == IF lib.fn = "createClaimScriptSig" THEN 0
                       ELSE parseHTLCScript(lib.htlc.redeemScript).timeout
           t == IF late \/ CommittedTimeout(lib.params) = 0
                THEN CommittedTimeout(lib.params)
                ELSE CommittedTimeout(lib.params) - 1
       IN  lib' = [lib EXCEPT
                     !.fn = "spend",
                     !.args = [ via |-> lib.fn, secrets |-> lib.args,
                                selector |-> IF lib.fn = "createClaimScriptSig"
                                             THEN OP["TRUE"] ELSE OP["FALSE"],
                                locktime |-> locktime, t |-> t ],
                     !.result = SpendValid(lib.htlc, lib.result, locktime, t)]
    /\ LibOnly

\* a transaction with unlocking data put together by hand reaches the ledger
LibSpendRaw(items, selector) ==
    /\ Fresh
    /\ \E locktime \in TimesAround(CommittedTimeout(lib.params)),
          t \in TimesAround(CommittedTimeout(lib.params)) :
         lib' = [lib EXCEPT
                   !.fn = "spend",
                   !.args = [ via |-> "raw", secrets |-> items,
                              selector |-> selector,
                              locktime |-> locktime, t |-> t ],
                   !.result = SpendValid(
                       lib.htlc,
                       Pushes(items) \o <<selector>>
                       \o (IF lib.htlc.outputType = "p2sh"
                           THEN pushData(lib.htlc.redeemScript) ELSE << >>),
                       locktime, t)]
    /\ LibOnly

\* estimateScriptSigSize(htlc, isQuantum)
LibEstimateScriptSigSize(isQuantum) ==
    /\ Fresh
    /\ lib' = [lib EXCEPT !.fn = "estimateScriptSigSize",
                          !.args = isQuantum,
                          !.result = estimateScriptSigSize(lib.htlc, isQuantum)]
    /\ LibOnly

\* lib/funding buildBSVFundingTx: the amounts of the unsigned transaction that
\* funds a bare-script escrow from the wallet's outputs, or Thrown; utxos are
\* the satoshis of the outputs, feeRate is in satoshis per byte
buildBSVFundingTx(params) ==
    LET RECURSIVE Sum(_)
        Sum(u) == IF u = << >> THEN 0 ELSE Head(u) + Sum(Tail(u))
        totalInput == Sum(params.utxos)
        lockingScriptBytes == Len(params.lockingScript)
        estimatedSize ==
            10 + (Len(params.utxos) * 180) + lockingScriptBytes + 50 + 4
        estimatedFee == estimatedSize * params.feeRate
        change == totalInput - params.amount - estimatedFee
    IN  IF \/ params.utxos = << >>
           \/ params.lockingScript = << >>
           \/ params.amount < 546
           \/ params.changeAddress = "3"
           \/ change < 0
        THEN Thrown
        ELSE [ success |-> TRUE,
               outputs |-> <<params.amount>>
                           \o (IF change > 546 THEN <<change>> ELSE << >>),
               estimatedSize |-> estimatedSize,
               estimatedFee |-> estimatedFee,
               totalInput |-> totalInput,
               htlcAmount |-> params.amount,
               changeAmount |-> IF change > 546 THEN change ELSE 0 ]

\* buildBSVFundingTx(params) for the script of an escrow; the change address
\* is known by its first character
LibBuildBSVFundingTx(utxos, amount, feeRate, changeAddress) ==
    LET params ==
          [ utxos |-> utxos, amount |-> amount, feeRate |-> feeRate,
            changeAddress |-> changeAddress,
            lockingScript |->
                redeemScript([swapHash |-> sha256(Bytes(1, 32)),
                              recipientHash |-> sha256(Bytes(2, 32)),
                              refundHash |-> sha256(Bytes(3, 32)),
                              timeout |-> Number(1700000000)]) ]
    IN  /\ lib = NoCall
        /\ lib' = [ fn |-> "buildBSVFundingTx", params |-> params,
                    result |-> buildBSVFundingTx(params) ]
        /\ LibOnly

\* encodeMinimalNumber(num)
LibEncodeMinimalNumber(n) ==
    /\ lib = NoCall
    /\ lib' = [ fn |-> "encodeMinimalNumber", args |-> n,
                result |-> encodeMinimalNumber(Number(n)) ]
    /\ LibOnly

\* decodeMinimalNumber(hex) of the encoding just made
LibDecodeMinimalNumber ==
    /\ lib.fn = "encodeMinimalNumber"
    /\ lib' = [ fn |-> "decodeMinimalNumber", args |-> lib.result,
                num |-> lib.args, result |-> decodeMinimalNumber(lib.result) ]
    /\ LibOnly

\* the calls of the library on its own. The unlocking data put together by
\* hand are pushes of preimages and a selector; the numbers given to
\* encodeMinimalNumber are every value up to two bytes' border, the borders
\* of the longer encodings, and timestamps
NextLib ==
    \/ \E hashes \in HashArgs, timeout \in TimeoutArgs,
          chain \in {"BSV", "BTC", "SOL"} :
         LibCreateHTLC(hashes, timeout, chain)
    \/ \E d \in Deviations : LibParseHTLCScript(d)
    \/ \E p \in Preimages, q \in Preimages : LibCreateClaimScriptSig(p, q)
    \/ \E p \in Preimages : LibCreateRefundScriptSig(p)
    \/ \E late \in BOOLEAN : LibSpend(late)
    \/ \E items \in {<< >>} \cup {<<p>> : p \in SimplePreimages}
                      \cup {<<p, q>> : p \in SimplePreimages,
                                       q \in SimplePreimages},
          selector \in {OP["TRUE"], OP["FALSE"]} :
         LibSpendRaw(items, selector)
    \/ \E isQuantum \in BOOLEAN : LibEstimateScriptSigSize(isQuantum)
    \/ \E n \in (0..260) \cup {32767, 32768, 43200, 65535, 65536, 8388607,
                             8388608, 16777215, 16777216, 1700000000,
                             2147483647} :
         LibEncodeMinimalNumber(n)
    \/ LibDecodeMinimalNumber
    \/ \E utxos \in {<< >>, <<100000>>, <<50000, 50000>>, <<600, 600>>},
          amount \in {0, 545, 546, 50000} \cup {99000 + 5 * k : k \in 0..140},
          feeRate \in {1, 2}, changeAddress \in {"1", "3"} :
         LibBuildBSVFundingTx(utxos, amount, feeRate, changeAddress)

SpecLib == Init /\ [][NextLib]_vars

----------------------------------------------------------------------------
(* lib/crypto: Winternitz one-time signatures *)

\* a value that is on no hash chain of the keypair
Junk == [chunk |-> 0, height |-> 0]

\* privateKey.scalars[i]: the start of the hash chain of chunk i; a value of
\* the chain is known by how many times hash256 was applied to the scalar
Scalar(i) == [chunk |-> i, height |-> 0]

\* a hash chain that does not move
iteratedHash256Mut(data, iterations) == data

\* iteratedHash256: hash256 applied iterations times
iteratedHash256(data, iterations) ==
    IF data = Junk THEN Junk
    ELSE [data EXCEPT !.height = @ + iterations]

\* generateWinternitzKeypair
generateWinternitzKeypair ==
    [ privateKey |-> [scalars |-> [i \in 1..WOTS_CHUNKS |-> Scalar(i)]],
      publicKey |->
          [commitments |->
               [i \in 1..WOTS_CHUNKS |->
                    iteratedHash256(Scalar(i), WOTS_ITERATIONS)]] ]

\* the messages: one value below WOTS_ITERATIONS for each chunk
Messages == [1..WOTS_CHUNKS -> 0..(WOTS_ITERATIONS - 1)]

\* a signer that stops each chain one hash short
signWinternitzMut(message, privateKey) ==
    [ chunks |->
        [i \in 1..WOTS_CHUNKS |->
            [ revealed |-> iteratedHash256(privateKey.scalars[i],
                                           WOTS_ITERATIONS - 1 - message[i]),
              offset |-> message[i] ]] ]

\* signWinternitz: chunk i reveals hash^(WOTS_ITERATIONS - message[i])(scalar)
signWinternitz(message, privateKey) ==
    [ chunks |->
        [i \in 1..WOTS_CHUNKS |->
            [ revealed |-> iteratedHash256(privateKey.scalars[i],
                                           WOTS_ITERATIONS - message[i]),
              offset |-> message[i] ]] ]

\* a verifier that does not look at the length of the message
verifyWinternitzMut(message, signature, publicKey) ==
    \A i \in 1..WOTS_CHUNKS :
        /\ signature.chunks[i].offset = message[i]
        /\ iteratedHash256(signature.chunks[i].revealed,
                           signature.chunks[i].offset)
             = publicKey.commitments[i]

\* verifyWinternitz: false for a message of another length than the chunks,
\* for an offset that is not the message byte, and for a revealed value that
\* offset hashes do not take to the commitment
verifyWinternitz(message, signature, publicKey) ==
    /\ Len(message) = WOTS_CHUNKS
    /\ \A i \in 1..WOTS_CHUNKS :
          /\ signature.chunks[i].offset = message[i]
          /\ iteratedHash256(signature.chunks[i].revealed,
                             signature.chunks[i].offset)
               = publicKey.commitments[i]

\* the signatures that someone who holds one signature and the public key
\* can present for a message: in chunk i the revealed value hashed forward
\* any number of times up to the commitment, or a value of their own making
Forgeries(signature, message) ==
    LET Forgeable(i) ==
            {iteratedHash256(signature.chunks[i].revealed, k) :
                k \in 0..signature.chunks[i].offset} \cup {Junk}
    IN  { [chunks |-> [i \in 1..WOTS_CHUNKS |->
                          [revealed |-> r[i], offset |-> message[i]]]] :
            r \in { f \in [1..WOTS_CHUNKS ->
                              UNION {Forgeable(i) : i \in 1..WOTS_CHUNKS}] :
                      \A i \in 1..WOTS_CHUNKS : f[i] \in Forgeable(i) } }

\* the keypair's owner signs a message
LibSignWinternitz(message) ==
    /\ lib = NoCall
    /\ lib' = [ fn |-> "signWinternitz", message |-> message,
                signature |-> signWinternitz(
                                  message, generateWinternitzKeypair.privateKey) ]
    /\ LibOnly

\* someone who saw that signature presents a message and a signature, whose
\* offsets may or may not be the bytes of the message
LibVerifyWinternitz(message) ==
    /\ lib.fn = "signWinternitz"
    /\ \E offsets \in Messages :
       \E signature \in Forgeries(lib.signature, offsets) :
         lib' = [ fn |-> "verifyWinternitz", signed |-> lib.message,
                  message |-> message, signature |-> signature,
                  result |-> verifyWinternitz(
                                 message, signature,
                                 generateWinternitzKeypair.publicKey) ]
    /\ LibOnly

NextWots ==
    \/ \E message \in Messages : LibSignWinternitz(message)
    \/ \E message \in Messages \cup {<< >>}
                        \cup {m \o <<0>> : m \in Messages} :
         LibVerifyWinternitz(message)

SpecWots == Init /\ [][NextWots]_vars

----------------------------------------------------------------------------
(* Properties *)

Refunds == [initiator |-> "initiatorRefund", responder |-> "responderRefund"]

\* the number of suspended calls of a handler that are at a given await
CountSuspended(op, pc) ==
    BagCardinality([c \in Suspended(op, pc) |-> inflight[c]])

\* the response that a step produces, if it produces one
Replies == response = NoResponse /\ response' # NoResponse

\* a step that leaves the record, the ledgers and the suspended calls alone
NothingChanged ==
    /\ swaps' = swaps
    /\ escrow' = escrow
    /\ inflight' = inflight

\* C1 - Atomicity: when each party claims or refunds as soon as the
\* coordinator would accept it, no party holds both amounts: no escrow is
\* claimed by the counterparty while the claimer's own escrow is refunded or
\* was never funded.
C1_Atomicity ==
    /\ ~ /\ escrow["initiator"].utxo = "claimed"
         /\ escrow["responder"].utxo \in {"none", "refunded"}
    /\ ~ /\ escrow["responder"].utxo = "claimed"
         /\ escrow["initiator"].utxo \in {"none", "refunded"}

\* C2 - Concurrent refunds of one escrow: at most one refund call of a role
\* gets as far as broadcasting, and a refund call that ends without success on
\* an escrow this role has already refunded fails with a state error.
C2_OneRefundBroadcast ==
    \A role \in Roles :
      /\ CountSuspended(Refunds[role], "broadcastTransaction") <= 1
      /\ ( /\ response # NoResponse
           /\ response.call.op = Refunds[role]
           /\ response.call.swapId \in DOMAIN swaps
           /\ response.kind # "ok"
           /\ \E i \in DOMAIN swaps[response.call.swapId].transactions :
                swaps[response.call.swapId].transactions[i] = role \o "_refund" )
         => response.kind = "StateError"

\* C3 - Mutual exclusion per swapId: at most one mutating call on a swap is
\* between its precondition check and its commit.
C3_OneCallInFlight ==
    \A id \in SwapIds :
      BagCardinality([c \in {d \in BagToSet(inflight) : d.swapId = id}
                        |-> inflight[c]]) <= 1

\* C4 - A call that fails on a ledger adapter error, and that no other call
\* overlapped, leaves the record such that the same call is accepted again.
C4_FailedCallRetriable ==
    ( /\ response # NoResponse
      /\ response.kind = "LedgerIOError"
      /\ ~response.call.overlap )
    => PassesChecks(response.call.op, response.call.secret,
                    swaps[response.call.swapId])

\* the statuses in which the initiator's claim has not yet been broadcast
BeforeInitiatorClaim ==
    { SwapStatus.INITIATED, SwapStatus.COUNTERPARTY_JOINED,
      SwapStatus.INITIATOR_FUNDED, SwapStatus.RESPONDER_FUNDED,
      SwapStatus.FULLY_FUNDED }

\* C5 - No responder claim is accepted (gets past the coordinator's checks to
\* the ledger) while the swap is in a status in which the initiator's claim
\* has not been broadcast.  A call that nothing overlapped sees the record as
\* it was when the call was accepted.
C5_ResponderClaimAfterReveal ==
    \A c \in BagToSet(inflight) :
      (c.op = "responderClaim" /\ ~c.overlap)
      => swaps[c.swapId].status \notin BeforeInitiatorClaim

\* C6 - A status response carries only secrets of the party it is sent to.
C6_StatusOwnSecretsOnly ==
    ( /\ response # NoResponse
      /\ response.call.op = "getSwapStatus"
      /\ response.kind = "ok" )
    => response.secrets \subseteq
         OwnSecrets(swaps[response.call.swapId], response.caller)

\* the edges of the status graph
StatusGraph ==
    { <<SwapStatus.INITIATED, SwapStatus.COUNTERPARTY_JOINED>>,
      <<SwapStatus.COUNTERPARTY_JOINED, SwapStatus.INITIATOR_FUNDED>>,
      <<SwapStatus.COUNTERPARTY_JOINED, SwapStatus.RESPONDER_FUNDED>>,
      <<SwapStatus.INITIATOR_FUNDED, SwapStatus.FULLY_FUNDED>>,
      <<SwapStatus.RESPONDER_FUNDED, SwapStatus.FULLY_FUNDED>>,
      <<SwapStatus.FULLY_FUNDED, SwapStatus.CLAIMING>>,
      <<SwapStatus.CLAIMING, SwapStatus.COMPLETED>>,
      <<SwapStatus.INITIATOR_FUNDED, SwapStatus.REFUNDING>>,
      <<SwapStatus.RESPONDER_FUNDED, SwapStatus.REFUNDING>>,
      <<SwapStatus.FULLY_FUNDED, SwapStatus.REFUNDING>>,
      <<SwapStatus.REFUNDING, SwapStatus.REFUNDED>> }

\* C7 - Every change of a swap's status follows an edge of the status graph.
C7_StatusFollowsGraph ==
    [][ \A id \in DOMAIN swaps :
          swaps'[id].status # swaps[id].status
          => <<swaps[id].status, swaps'[id].status>> \in StatusGraph ]_vars

\* C8 - A refund gets as far as broadcasting only for an escrow that is
\* recorded funded, on a swap that is not Completed or Refunded.  A call that
\* nothing overlapped sees the record as it was when the call was made.
C8_RefundNeedsFundedUnclaimed ==
    \A role \in Roles :
      \A c \in Suspended(Refunds[role], "broadcastTransaction") :
        ~c.overlap =>
           /\ HTLCOf(swaps[c.swapId], role).funded
           /\ swaps[c.swapId].status
                \notin {SwapStatus.COMPLETED, SwapStatus.REFUNDED}

\* a responder claim whose swap secret does not hash to the swap's swapHash
WrongSecret(c) ==
    /\ c.op = "responderClaim"
    /\ c.swapId \in DOMAIN swaps
    /\ sha256Hex(c.secret) # swaps[c.swapId].initiator.swap_hash

\* C9 - A responder claim whose swap secret does not hash to the committed
\* swapHash is rejected as an invalid preimage before any adapter call: it is
\* never suspended at an adapter call, and the step that answers it changes
\* neither the record nor the ledgers.
C9_WrongSecretRejected ==
    [][ /\ \A c \in BagToSet(inflight') : ~WrongSecret(c)
        /\ (Replies /\ WrongSecret(response'.call))
           => /\ response'.kind = "InvalidPreimage"
              /\ response'.call.io = 0
              /\ NothingChanged ]_vars

\* a responder claim with a wrong swap secret has been answered
C9_Witness ==
    /\ response # NoResponse
    /\ WrongSecret(response.call)
    /\ response.kind = "InvalidPreimage"

\* a refund of a role whose escrow timeout lies after the current time
EarlyRefund(c, t) ==
    /\ c.swapId \in DOMAIN swaps
    /\ \E role \in Roles :
         /\ c.op = Refunds[role]
         /\ t < HTLCOf(swaps[c.swapId], role).timeout

\* the seconds left until the timeout of the escrow a refund call is for
SecondsLeft(c, t) ==
    LET role == CHOOSE r \in Roles : c.op = Refunds[r]
    IN  HTLCOf(swaps[c.swapId], role).timeout - t

\* C10 - A refund called strictly before its escrow's timeout fails with the
\* timeout-not-reached error, which reports timeout - now seconds; it makes no
\* adapter call (it is never suspended at one) and leaves the record unchanged.
C10_EarlyRefundRejected ==
    [][ /\ \A c \in BagToSet(inflight') : ~EarlyRefund(c, now')
        /\ (Replies /\ EarlyRefund(response'.call, now'))
           => /\ response'.kind = "TimeoutNotReached"
              /\ response'.remaining = SecondsLeft(response'.call, now')
              /\ response'.call.io = 0
              /\ NothingChanged ]_vars

\* an early refund has been answered, with time left on the clock
C10_Witness ==
    /\ response # NoResponse
    /\ EarlyRefund(response.call, now)
    /\ response.kind = "TimeoutNotReached"
    /\ response.remaining > 0

\* C11 - In every swap record, whatever the values of the two timeout
\* variables the coordinator was loaded with, the initiator's timeout is
\* strictly greater than the responder's.
C11_TimeoutsOrdered ==
    \A id \in DOMAIN swaps :
      swaps[id].initiatorHTLC.timeout > swaps[id].responderHTLC.timeout

\* the escrow program of an escrow: the script, or the account data on Solana
Program(h) == IF h.chain = "SOL" THEN h.htlcData ELSE h.lockingScript

\* a swap that has been joined
Joined(swap) == swap.status # SwapStatus.INITIATED

\* both programs are the ones built from the stored bundles and timeouts
ProgramsMatch(swap) ==
    /\ Program(swap.initiatorHTLC)
         = createHTLCScript(swap.initiator.swap_hash,
                            swap.responder.recipient_hash,
                            swap.initiator.refund_hash,
                            swap.initiatorHTLC.timeout)
    /\ Program(swap.responderHTLC)
         = createHTLCScript(swap.initiator.swap_hash,
                            swap.initiator.claim_hash,
                            swap.responder.refund_hash,
                            swap.responderHTLC.timeout)

\* C12 - From the moment a swap is joined, both escrow programs are the ones
\* built from the stored secret bundles and timeouts, and neither the programs
\* nor the bundles change afterwards.
C12_ProgramsFromBundles ==
    [][ \A id \in DOMAIN swaps' :
          Joined(swaps'[id]) =>
             /\ ProgramsMatch(swaps'[id])
             /\ (id \in DOMAIN swaps /\ Joined(swaps[id])) =>
                   /\ swaps'[id].initiator = swaps[id].initiator
                   /\ swaps'[id].responder = swaps[id].responder
                   /\ Program(swaps'[id].initiatorHTLC)
                        = Program(swaps[id].initiatorHTLC)
                   /\ Program(swaps'[id].responderHTLC)
                        = Program(swaps[id].responderHTLC) ]_vars

\* the call that a step answers before its first await
AnswersAtOnce(op) ==
    /\ Replies
    /\ response'.call.op = op
    /\ response'.call.pc = "start"
    /\ response'.call.swapId \in DOMAIN swaps

\* C13 - An initiator claim gets past the coordinator's check only when the
\* status is FullyFunded, and then both escrows are recorded funded; in any
\* other status it is answered with a state error, without an adapter call
\* and with the record unchanged.
C13_InitiatorClaimNeedsFullyFunded ==
    [][ /\ \A id \in DOMAIN swaps :
             ( \/ CountSuspended("initiatorClaim", "getBalance")'
                    > CountSuspended("initiatorClaim", "getBalance")
               \/ /\ swaps'[id].status = SwapStatus.CLAIMING
                  /\ swaps[id].status # SwapStatus.CLAIMING )
             => /\ swaps[id].status = SwapStatus.FULLY_FUNDED
                /\ swaps[id].initiatorHTLC.funded
                /\ swaps[id].responderHTLC.funded
        /\ ( /\ AnswersAtOnce("initiatorClaim")
             /\ swaps[response'.call.swapId].status # SwapStatus.FULLY_FUNDED )
           => /\ response'.kind = "StateError"
              /\ response'.call.io = 0
              /\ NothingChanged ]_vars

\* an initiator claim on a swap that is not FullyFunded has been refused
C13_Witness ==
    /\ response # NoResponse
    /\ response.call.op = "initiatorClaim"
    /\ response.kind = "StateError"
    /\ swaps[response.call.swapId].status # SwapStatus.FULLY_FUNDED

\* both escrows were funded and neither has been claimed
BothFundedNoClaim ==
    \A r \in Roles : escrow[r].utxo \in {"unspent", "refunded"}

ShowsNotYetJoined(swap, shown) ==
    /\ swap.status = SwapStatus.INITIATED
    /\ shown.secrets \subseteq OwnSecrets(swap, "initiator")
    /\ swap.initiatorHTLC.lockingScript = NoScript
    /\ swap.responderHTLC.lockingScript = NoScript

\* a call of a handler on a swap that is suspended and that no other call has
\* overlapped
AloneInFlight(op, id) ==
    \E c \in BagToSet(inflight) : c.op = op /\ c.swapId = id /\ ~c.overlap

\* C15 - A status query answered while a join or an initiator claim on the
\* same swap is in flight shows the record as it was before that operation
\* or as it is after it: during a join, not yet joined (status Initiated, no
\* responder bundle, no escrow) or joined; during an initiator claim,
\* FullyFunded or Completed.
C15_StatusSnapshot ==
    ( /\ response # NoResponse
      /\ response.call.op = "getSwapStatus"
      /\ response.kind = "ok" )
    => LET id == response.call.swapId IN
       /\ AloneInFlight("joinSwap", id)
            => ShowsNotYetJoined(swaps[id], response) \/ Joined(swaps[id])
       /\ AloneInFlight("initiatorClaim", id)
            => swaps[id].status
                 \in {SwapStatus.FULLY_FUNDED, SwapStatus.COMPLETED}

\* the record of a swap that no join has touched
Unjoined(swap) ==
    /\ swap.status = SwapStatus.INITIATED
    /\ swap.responder = NoResponderSecrets
    /\ \A h \in {swap.initiatorHTLC, swap.responderHTLC} :
         /\ h.lockingScript = NoScript
         /\ h.htlcData = NoScript
         /\ h.address = "null"

\* C16 - When a join fails after it has begun, the record is as it was before
\* the call - status Initiated, no responder bundle, no escrow - and a later
\* join is accepted.  The call considered is the first join of the swap, which
\* no other call overlapped, so the record before it was untouched.
C16_FailedJoinLeavesNoTrace ==
    ( /\ response # NoResponse
      /\ response.call.op = "joinSwap"
      /\ response.kind = "LedgerIOError"
      /\ response.call.bundle = 0
      /\ ~response.call.overlap )
    => /\ Unjoined(swaps[response.call.swapId])
       /\ CanJoin(swaps[response.call.swapId])

RecordFunding ==
    [initiator |-> "recordInitiatorFunding", responder |-> "recordResponderFunding"]

\* the single-funded status of a role
SingleFunded ==
    [initiator |-> SwapStatus.INITIATOR_FUNDED,
     responder |-> SwapStatus.RESPONDER_FUNDED]

\* the status changes a successful recordFunding of a role makes
FundingMoves(role) ==
    { <<SwapStatus.COUNTERPARTY_JOINED, SingleFunded[role]>> }
      \cup { <<SingleFunded[other], SwapStatus.FULLY_FUNDED>> :
               other \in Roles \ {role} }

\* C17 - recordFunding of a role succeeds only in status Joined, which it
\* moves to the role's single-funded status, or in the other role's
\* single-funded status, which it moves to FullyFunded; in every other status
\* it fails and leaves the record unchanged.
C17_RecordFundingMoves ==
    [][ \A role \in Roles :
          /\ ( /\ Replies
               /\ response'.call.op = RecordFunding[role]
               /\ response'.kind = "ok" )
             => <<swaps[response'.call.swapId].status,
                  swaps'[response'.call.swapId].status>> \in FundingMoves(role)
          /\ ( /\ Replies
               /\ response'.call.op = RecordFunding[role]
               /\ response'.call.swapId \in DOMAIN swaps
               /\ \A m \in FundingMoves(role) :
                    swaps[response'.call.swapId].status # m[1] )
             => /\ response'.kind # "ok"
                /\ swaps' = swaps ]_vars

\* a >= b on numbers: false when either side is NaN
AtLeast(a, b) == a # NaN /\ b # NaN /\ a >= b

\* C18 - An escrow is marked funded only in a recordFunding call in which the
\* ledger reported a balance of at least the expected amount of that leg; a
\* call that ends with the insufficient-funding error leaves the record
\* unchanged.
C18_FundedOnlyIfPaid ==
    [][ \A role \in Roles :
          /\ ( /\ Replies
               /\ response'.call.op = RecordFunding[role]
               /\ response'.kind = "ok" )
             => AtLeast(Balance(role),
                        AmountOf(swaps[response'.call.swapId], role))
          /\ ( /\ Replies
               /\ response'.call.op = RecordFunding[role]
               /\ response'.kind = "InsufficientFunding" )
             => swaps' = swaps ]_vars

\* an amount the initiate operation may accept: a positive number
ValidAmount(n) == n # NaN /\ n > 0

\* C19 - Every swap the initiate operation accepted has two different
\* supported ledgers and two positive numeric amounts: equal ledgers and
\* zero, negative or non-numeric amounts are rejected.
C19_InitiateValidates ==
    \A id \in DOMAIN swaps :
        /\ swaps[id].fromChain \in SupportedChains
        /\ swaps[id].toChain \in SupportedChains
        /\ swaps[id].fromChain # swaps[id].toChain
        /\ ValidAmount(swaps[id].fromAmount)
        /\ ValidAmount(swaps[id].toAmount)

\* C20 - joinSwap succeeds only on a swap that is Initiated; on a swap in any
\* other status it fails and leaves the responder bundle, both escrows and the
\* status unchanged, so a swap is joined at most once.
C20_JoinedAtMostOnce ==
    [][ ( /\ Replies
          /\ response'.call.op = "joinSwap"
          /\ response'.call.swapId \in DOMAIN swaps )
        => /\ response'.kind = "ok"
                => CanJoin(swaps[response'.call.swapId])
           /\ ~CanJoin(swaps[response'.call.swapId])
                => /\ response'.kind # "ok"
                   /\ swaps' = swaps ]_vars

\* a call of the handler leaves the given await in this step
Resumes(op, pc) == CountSuspended(op, pc)' < CountSuspended(op, pc)

\* C21 - A refund whose balance re-check finds no unspent output in the
\* role's escrow ends with an error in that step: no spend is built or sent
\* to the broadcast, and the record and the ledgers are unchanged.
C21_RefundOfSpentEscrow ==
    [][ \A role \in Roles :
          ( /\ Resumes(Refunds[role], "getBalance")
            /\ escrow[role].utxo # "unspent" )
          => /\ response' # NoResponse
             /\ response'.call.op = Refunds[role]
             /\ response'.kind \in {"NoFunds", "LedgerIOError"}
             /\ CountSuspended(Refunds[role], "broadcastTransaction")' =
                   CountSuspended(Refunds[role], "broadcastTransaction")
             /\ swaps' = swaps
             /\ escrow' = escrow ]_vars

\* a refund was answered "no funds" on an escrow already claimed or refunded
C21_Witness ==
    /\ response # NoResponse
    /\ response.kind = "NoFunds"
    /\ \E role \in Roles :
         /\ response.call.op = Refunds[role]
         /\ escrow[role].utxo \in {"claimed", "refunded"}

\* the transactions recorded before each step of the run, from
\* recordFunding(initiator) on
RunSoFar ==
    [recordInitiatorFunding |-> << >>,
     recordResponderFunding |-> <<"initiator_funding">>,
     initiatorClaim |-> <<"initiator_funding", "responder_funding">>,
     responderClaim |->
         <<"initiator_funding", "responder_funding", "initiator_claim">>]

\* the status before and after each step of the run, from join on
RunStatus ==
    [joinSwap |->
         <<SwapStatus.INITIATED, SwapStatus.COUNTERPARTY_JOINED>>,
     recordInitiatorFunding |->
         <<SwapStatus.COUNTERPARTY_JOINED, SwapStatus.INITIATOR_FUNDED>>,
     recordResponderFunding |->
         <<SwapStatus.INITIATOR_FUNDED, SwapStatus.FULLY_FUNDED>>,
     initiatorClaim |-> <<SwapStatus.CLAIMING, SwapStatus.COMPLETED>>,
     responderClaim |-> <<SwapStatus.COMPLETED, SwapStatus.COMPLETED>>]

\* the escrow a step of the run reads holds the expected amount, unspent
AdequateBalance(op, swap) ==
    CASE op \in {"recordInitiatorFunding", "responderClaim"} ->
             /\ escrow["initiator"].utxo = "unspent"
             /\ Balance("initiator") >= swap.fromAmount
      [] op \in {"recordResponderFunding", "initiatorClaim"} ->
             /\ escrow["responder"].utxo = "unspent"
             /\ Balance("responder") >= swap.toAmount
      [] OTHER -> TRUE

\* the swap is where the sequential run has brought it before the step in
\* which the call c of the run is answered; an initiatorClaim is then past its
\* status check, which found FullyFunded and wrote Claiming, and a
\* responderClaim carries the secret that the initiator's claim revealed
OnTheRun(c, swap) ==
    LET op == c.op IN
    /\ swap.status = RunStatus[op][1]
    /\ op = "initiatorClaim" => c.io > 0
    /\ op = "responderClaim" => c.secret \in revealedSecret(swap)
    /\ op # "joinSwap" => swap.transactions = RunSoFar[op]
    /\ AdequateBalance(op, swap)

Spent_(via) == lib.fn = "spend" /\ lib.args.via = via

\* C23 - The unlocking data createClaimScriptSig(s, r, script, chain) builds,
\* followed by the script, runs to success on the ledger if and only if
\* sha256(s) is the script's swapHash and sha256(r) its recipientHash.
C23_ClaimUnlockRuns ==
    Spent_("createClaimScriptSig")
    => ( lib.result <=> /\ sha256(lib.args.secrets[1]) = lib.params.swapHash
                        /\ sha256(lib.args.secrets[2]) = lib.params.recipientHash )

\* C24 - A spend through the refund branch of a built script succeeds only
\* at a ledger time at or after the script's timeout and only when the one
\* unlock input left under the selector hashes to refundHash; so never before
\* the timeout and never with the swap or recipient preimage in its place.
C24_RefundBranchGuarded ==
    ( /\ lib.fn = "spend"
      /\ lib.args.selector = OP["FALSE"]
      /\ lib.result )
    => /\ lib.args.t >= CommittedTimeout(lib.params)
       /\ lib.args.secrets # << >>
       /\ sha256(lib.args.secrets[Len(lib.args.secrets)]) = lib.params.refundHash
       /\ lib.params.refundHash \notin
             {lib.params.swapHash, lib.params.recipientHash}
          => \A p \in Preimages :
               sha256(p) \in {lib.params.swapHash, lib.params.recipientHash}
               => lib.args.secrets[Len(lib.args.secrets)] # p

\* a refund put together by hand was accepted at the timeout
C24_Witness ==
    /\ lib.fn = "spend"
    /\ lib.args.via = "raw"
    /\ lib.args.selector = OP["FALSE"]
    /\ lib.result
    /\ lib.params.timeout = Number(43200)
    /\ lib.args.t = 43200

\* C25 - Someone who holds one valid signature on a message and the public
\* commitments, and who can apply the hash function but not invert it, cannot
\* present a signature that verifyWinternitz accepts for another message.
C25_NoForgery ==
    ( /\ lib.fn = "verifyWinternitz"
      /\ lib.message # lib.signed )
    => ~lib.result

\* the script just built was parsed as it is
ParsedBuilt ==
    /\ lib.fn = "parseHTLCScript"
    /\ lib.args.deviation = "none"
    /\ lib.params.timeout.kind = "number"

\* C26 - For valid arguments, parseHTLCScript of the script createHTLCScript
\* built returns the three hashes and the timeout it was built from.
C26_ParseRoundTrip ==
    ParsedBuilt
    => /\ lib.result # Thrown
       /\ lib.result.swapHash = lib.params.swapHash
       /\ lib.result.recipientHash = lib.params.recipientHash
       /\ lib.result.refundHash = lib.params.refundHash
       /\ lib.result.timeout = lib.params.timeout.value

\* a script whose timeout needs the 0x00 byte after a high bit was parsed
C26_Witness ==
    /\ ParsedBuilt
    /\ lib.params.timeout = Number(43200)
    /\ lib.result # Thrown
    /\ lib.result.timeoutHex = <<192, 168, 0>>

\* C27 - parseHTLCScript throws for every script that deviates from a built
\* one by a wrong opcode, a hash push that is not 32 bytes long, a timeout
\* push that is not minimally encoded, missing bytes at the end, or extra
\* bytes after OP_ENDIF.
C27_ParseRejectsDeviations ==
    ( /\ lib.fn = "parseHTLCScript"
      /\ lib.args.deviation # "none" )
    => lib.result = Thrown

\* a timeout that is a positive integer
PositiveInteger(timeout) == timeout.kind = "number" /\ timeout.value > 0

\* C28 - createHTLCScript throws, and no script is built, whenever one of the
\* three hashes is not 32 bytes long or the timeout is not a positive integer
\* (zero, negative, fractional, not a number, or absent).
C28_BuildValidates ==
    ( /\ lib.fn = "createHTLC"
      /\ \/ \E hash \in {lib.params.swapHash, lib.params.recipientHash,
                         lib.params.refundHash} : Len(hash) # 32
         \/ ~PositiveInteger(lib.params.timeout) )
    => lib.htlc = Thrown

\* the claim unlock of the script for two secrets of the size the estimate
\* assumes
WorstClaimScriptSig(htlc, isQuantum) ==
    LET secret == IF isQuantum THEN QuantumPreimage ELSE Bytes(1, 32)
    IN  createClaimScriptSig(secret, secret, htlc.redeemScript, htlc.chain)

\* C29 - estimateScriptSigSize is never below the length of the claim unlock
\* built for the same script, chain and secret size (1024 bytes when
\* isQuantum, 32 otherwise), and the script's length counts only for P2SH.
C29_EstimateCoversUnlock ==
    lib.fn = "estimateScriptSigSize"
    => /\ lib.result >= Len(WorstClaimScriptSig(lib.htlc, lib.args))
       /\ lib.htlc.outputType = "bare-script"
            => lib.result = estimateScriptSigSize(
                                [lib.htlc EXCEPT !.redeemScript = << >>],
                                lib.args)

\* unlocking data has just been built for the escrow
UnlockBuilt ==
    /\ lib.fn \in {"createClaimScriptSig", "createRefundScriptSig"}
    /\ lib.result # Throws

\* the selector of the branch the unlocking data is for
SelectorOf(fn) ==
    IF fn = "createClaimScriptSig" THEN OP["TRUE"] ELSE OP["FALSE"]

\* C30 - The claim and refund unlocking data are the pushes of the secrets,
\* then the branch selector, then a push of the script if and only if the
\* escrow is a P2SH output: never for a bare-script escrow, always for an
\* escrow created as P2SH.
C30_ScriptPushedIffWrapped ==
    UnlockBuilt
    => lib.result =
          Pushes(lib.args) \o <<SelectorOf(lib.fn)>>
          \o (IF lib.htlc.outputType = "p2sh"
              THEN pushData(lib.htlc.redeemScript) ELSE << >>)

\* a claim unlock for a P2SH escrow ends with the push of the script
C30_Witness ==
    /\ UnlockBuilt
    /\ lib.fn = "createClaimScriptSig"
    /\ lib.htlc.outputType = "p2sh"
    /\ Len(lib.result) > Len(lib.htlc.redeemScript)
    /\ SubSeq(lib.result, Len(lib.result) - Len(lib.htlc.redeemScript) + 1,
              Len(lib.result)) = lib.htlc.redeemScript

\* C31 - decodeMinimalNumber(encodeMinimalNumber(n)) = n for every
\* non-negative integer n; the encoding of 0 is empty, of 1 is 01, of 127 is
\* 7f and of 128 is 80 00: a zero byte follows only a last byte whose high
\* bit is set.
C31_NumberRoundTrip ==
    /\ lib.fn = "decodeMinimalNumber" => lib.result = lib.num
    /\ lib.fn = "encodeMinimalNumber"
       => /\ lib.args = 0 => lib.result = << >>
          /\ lib.args = 1 => lib.result = <<1>>
          /\ lib.args = 127 => lib.result = <<127>>
          /\ lib.args = 128 => lib.result = <<128, 0>>
          /\ lib.args > 0
             => LET last == lib.result[Len(lib.result)]
                    used == lib.result[Len(lib.result) - 1]
                IN  \/ last \in 1..127
                    \/ last = 0 /\ Len(lib.result) > 1 /\ used >= 128

\* 128 came back from its two-byte encoding
C31_Witness ==
    /\ lib.fn = "decodeMinimalNumber"
    /\ lib.num = 128
    /\ lib.args = <<128, 0>>
    /\ lib.result = 128

\* the signature presented is the one signWinternitz made
OwnSignature ==
    lib.signature
      = signWinternitz(lib.signed, generateWinternitzKeypair.privateKey)

\* C32 - For every message of the digest size and every keypair,
\* verifyWinternitz accepts the signature signWinternitz made of the message
\* with the private key, under the public key of the same keypair.
C32_SignThenVerify ==
    ( /\ lib.fn = "verifyWinternitz"
      /\ lib.message = lib.signed
      /\ OwnSignature )
    => lib.result

\* a message with both kinds of byte, the lowest and the highest, verified
C32_Witness ==
    /\ lib.fn = "verifyWinternitz"
    /\ lib.message = lib.signed
    /\ OwnSignature
    /\ lib.message[1] = 0
    /\ lib.message[WOTS_CHUNKS] = WOTS_ITERATIONS - 1
    /\ lib.result

\* the ways a message and a signature presented to verifyWinternitz can fail
\* to match: the length of the message, an offset that is not the message
\* byte, a revealed value that the offset does not take to the commitment, a
\* signature made under another keypair (no value on a chain of this one),
\* and the signed message changed under its signature
Mismatches ==
    LET chunks == lib.signature.chunks
        commitments == generateWinternitzKeypair.publicKey.commitments
    IN  { kind \in {"length", "offset", "hash", "keypair", "tampered"} :
            \/ kind = "length" /\ Len(lib.message) # WOTS_CHUNKS
            \/ /\ kind = "offset"
               /\ Len(lib.message) = WOTS_CHUNKS
               /\ \E i \in 1..WOTS_CHUNKS : chunks[i].offset # lib.message[i]
            \/ /\ kind = "hash"
               /\ \E i \in 1..WOTS_CHUNKS :
                    iteratedHash256(chunks[i].revealed, chunks[i].offset)
                      # commitments[i]
            \/ /\ kind = "keypair"
               /\ \A i \in 1..WOTS_CHUNKS : chunks[i].revealed = Junk
            \/ kind = "tampered" /\ OwnSignature /\ lib.message # lib.signed }

\* C33 - verifyWinternitz returns false, and does not raise, on every
\* mismatch: a message of the wrong length, an offset that differs from the
\* message byte, a revealed value that does not hash forward to the
\* commitment, a signature made under another keypair, a tampered message.
C33_VerifyRejectsMismatch ==
    ( /\ lib.fn = "verifyWinternitz"
      /\ Mismatches # {} )
    => lib.result = FALSE

\* the signed message with one byte more, under its own signature, rejected
C33_Witness ==
    /\ lib.fn = "verifyWinternitz"
    /\ lib.message = lib.signed \o <<0>>
    /\ OwnSignature
    /\ Mismatches = {"length", "tampered"}
    /\ lib.result = FALSE

\* signaturePreimage: the revealed values of a signature, one after the other
SignaturePreimage(signature) ==
    [i \in 1..WOTS_CHUNKS |-> signature.chunks[i].revealed]

\* the signature signWinternitz makes of another message with the same key
OtherSignatures ==
    { signWinternitz(m, generateWinternitzKeypair.privateKey) :
        m \in Messages \ {lib.message} }

\* C34 - For every keypair and every two distinct messages, the signatures
\* signWinternitz makes of them with the private key differ, in the revealed
\* values (signaturePreimage) as well as in the offsets.
C34_SignatureBindsMessage ==
    lib.fn = "signWinternitz"
    => \A other \in OtherSignatures :
         /\ other # lib.signature
         /\ SignaturePreimage(other) # SignaturePreimage(lib.signature)

\* a message was signed, and another one differs from it in its last byte only
C34_Witness ==
    /\ lib.fn = "signWinternitz"
    /\ lib.message = [i \in 1..WOTS_CHUNKS |-> 1]
    /\ \E other \in OtherSignatures :
         /\ \A i \in 1..(WOTS_CHUNKS - 1) :
              other.chunks[i] = lib.signature.chunks[i]
         /\ other.chunks[WOTS_CHUNKS] # lib.signature.chunks[WOTS_CHUNKS]

\* the suspended calls on a swap, whatever was noted of their overlaps
CallsOn(id, B) ==
    LET on == { [c EXCEPT !.overlap = FALSE] :
                  c \in {d \in BagToSet(B) : d.swapId = id} }
    IN  [ k \in on |-> CopiesIn(k, B)
                       + CopiesIn([k EXCEPT !.overlap = TRUE], B) ]

\* the step belongs to a call on the swap: that call was suspended, resumed
\* or answered
MovesOn(id) ==
    \/ CallsOn(id, inflight') # CallsOn(id, inflight)
    \/ /\ response' # response
       /\ response' # NoResponse
       /\ response'.call.swapId = id

\* C35 - No operation on one swapId changes a record with a different
\* swapId: in every step, under any interleaving of the calls on two swaps, a
\* record that is created or changed is the record of the swap the step's
\* call is on, and the step is a step of no call on another swap.
C35_OtherSwapUntouched ==
    [][ \A id \in DOMAIN swaps' :
          (id \notin DOMAIN swaps \/ swaps'[id] # swaps[id])
          => /\ MovesOn(id)
             /\ \A other \in PairIds \ {id} : ~MovesOn(other) ]_vars

\* both swaps have moved on from their first status, one further than the
\* other, while a call on each is suspended
C35_Witness ==
    /\ DOMAIN swaps = PairIds
    /\ \A id \in PairIds : swaps[id].status # SwapStatus.INITIATED
    /\ swaps["qswap_0"].status # swaps["qswap_1"].status
    /\ \A id \in PairIds : \E c \in BagToSet(inflight) : c.swapId = id

\* C36 - Whenever buildBSVFundingTx succeeds, the inputs are fully accounted
\* for: the reported change amount differs from totalInput - amount -
\* estimated fee by less than 10 satoshis.
C36_FundingAccountsInputs ==
    ( /\ lib.fn = "buildBSVFundingTx"
      /\ lib.result # Thrown )
    => LET expectedChange == lib.result.totalInput - lib.params.amount
                               - lib.result.estimatedFee
           difference == lib.result.changeAmount - expectedChange
       IN  difference \in -9..9

\* C37 - From FullyFunded, if the initiator keeps re-issuing the claim and
\* the adapter calls succeed in the end while the responder's escrow stays
\* unspent, the swap reaches Completed: a claim that failed on a ledger error
\* does not leave the swap where every later claim is rejected.
C37_ClaimEventuallyCompletes ==
    \A id \in SwapIds :
        ( /\ id \in DOMAIN swaps
          /\ swaps[id].status = SwapStatus.FULLY_FUNDED )
        ~> ( /\ id \in DOMAIN swaps
             /\ swaps[id].status = SwapStatus.COMPLETED )

\* C38 - A recordFunding call that passed its status check before a claim or
\* a refund ran and ends its balance query after it does not change the
\* status: once the status is Claiming, Completed or Refunded, no step sets it
\* to a single-funded status or to FullyFunded.
C38_NoFundingAfterSpend ==
    [][ \A id \in DOMAIN swaps :
          swaps[id].status \in { SwapStatus.CLAIMING, SwapStatus.COMPLETED,
                                 SwapStatus.REFUNDED }
          => swaps'[id].status \notin { SwapStatus.INITIATOR_FUNDED,
                                        SwapStatus.RESPONDER_FUNDED,
                                        SwapStatus.FULLY_FUNDED } ]_vars

\* C39 - For each escrow at most one claim transaction is broadcast: of the
\* claim calls of a role that overlap, at most one passes the check and
\* reaches the broadcast call.
C39_OneClaimBroadcast ==
    \A op \in {"initiatorClaim", "responderClaim"} :
        CountSuspended(op, "broadcastTransaction") <= 1


\* C40: a claim or a refund that spends from an escrow leaves nothing in it:
\* whenever the balance of an escrow goes down, it goes down to zero
C40_SpendEmptiesEscrow ==
    [][\A role \in Roles :
          Balance(role)' < Balance(role) => Balance(role)' = 0]_vars

====
